---- MODULE Spec2Model ----
(***************************************************************************)
(* Chameleon Ultra toolbox: the framed binary protocol layer.              *)
(*                                                                         *)
(* Frame codec (lrcCalc, makeDataFrame, parseFrames) and command channel   *)
(* (sendCommand / sendCmd, the responseCallbacks map and the per-request   *)
(* timeout timers) of the three driver classes:                            *)
(*   "ble"     ChameleonUltraBLE     (device extension)                    *)
(*   "serial"  ChameleonUltraSerial  (device extension)                    *)
(*   "legacy"  ChameleonUltraBLE     (console page, built-in class)        *)
(***************************************************************************)
EXTENDS Integers, Sequences, FiniteSets, TLC

\* ------------------------------------------------------------------ bounds
\* longest payload of a frame in the model
MaxPayload == 2
\* longest run of noise bytes put in front of a frame
MaxGarbage == 2
\* number of sendCommand calls in one behaviour
MaxSends == 2
\* largest chunk the link hands over when it splits the bytes in flight
Mtu == 8

\* ------------------------------------------------------- program constants
SOF == 17
CMD_GET_ACTIVE_SLOT == 1018
CMD_GET_BATTERY_INFO == 1025
STATUS_SUCCESS == 104
STATUS_PAR_ERR == 96

\* ------------------------------------------------------------ input sets
Drivers == {"ble", "serial", "legacy"}
\* command ids used by the channel scenarios
CmdIds == {CMD_GET_BATTERY_INFO, CMD_GET_ACTIVE_SLOT}
\* command ids fed to the codec: 4607 = 0x11EF looks like SOF,LRC1
CodecCmds == {CMD_GET_BATTERY_INFO, 4607}
\* status values fed to the codec: 0, SUCCESS, and a value with a high byte
CodecStatus == {0, STATUS_SUCCESS, 352}
PayloadBytes == {17, 239}
GarbageBytes == {0, 17, 239}

RECURSIVE SeqsUpTo(_, _)
SeqsUpTo(S, n) ==
    IF n = 0 THEN {<<>>}
    ELSE LET shorter == SeqsUpTo(S, n - 1)
         IN shorter \cup {Append(s, x) : s \in {t \in shorter : Len(t) = n - 1}, x \in S}

Payloads == SeqsUpTo(PayloadBytes, MaxPayload)

\* ------------------------------------------------------------------ codec
\* the running sum of lrcCalc's loop (ret += b; ret &= 0xFF), taken over
\* the two halves of data so that long payloads can be summed
RECURSIVE SumBytes(_)
SumBytes(data) ==
    IF data = <<>> THEN 0
    ELSE IF Len(data) = 1 THEN data[1] % 256
    ELSE LET half == Len(data) \div 2
         IN (SumBytes(SubSeq(data, 1, half))
             + SumBytes(SubSeq(data, half + 1, Len(data)))) % 256

lrcCalc(data) == (256 - SumBytes(data)) % 256

\* variant: CMD written low byte first
makeDataFrameLittleEndian(cmd, data, status) ==
    LET dataLen == Len(data)
        hdr1 == <<SOF>>
        hdr8 == hdr1 \o <<lrcCalc(hdr1),
                          cmd % 256, (cmd \div 256) % 256,
                          (status \div 256) % 256, status % 256,
                          (dataLen \div 256) % 256, dataLen % 256>>
        body == hdr8 \o <<lrcCalc(hdr8)>> \o data
    IN  body \o <<lrcCalc(body)>>

makeDataFrame(cmd, data, status) ==
    LET dataLen == Len(data)
        hdr1 == <<SOF>>
        hdr8 == hdr1 \o <<lrcCalc(hdr1),
                          (cmd \div 256) % 256, cmd % 256,
                          (status \div 256) % 256, status % 256,
                          (dataLen \div 256) % 256, dataLen % 256>>
        body == hdr8 \o <<lrcCalc(hdr8)>> \o data
    IN  body \o <<lrcCalc(body)>>


\* --------------------------------------------------------------- state
VARIABLES
    driver,             \* which driver class the session is an instance of
    wire,               \* inbound bytes in flight, not yet handed to the transport
    buffer,             \* ChameleonUltraBLE.buffer (extension, BLE)
    readBuffer,         \* SerialTransport.readBuffer (extension, Serial)
    responseBuffer,     \* ChameleonUltraBLE.responseBuffer (legacy)
    responseCallbacks,  \* cmd -> request whose closure is registered
    timers,             \* per request: state of its setTimeout timer
    promise,            \* per request: state of the promise sendCommand returned
    sent,               \* the sendCommand calls made so far, in call order
    written,            \* frames the transport wrote to the device, in order
    answered,           \* indices of written frames the device has answered
    log,                \* frames that reached "valid frame received", in order
    input,              \* the stream drawn for a codec run
    chunks,             \* onData calls of a codec run so far: none, one, many
    connected,          \* the link to the device is up
    onDataCallback,     \* what the transport's single onData callback is
    pc,                 \* where the running command handler or script stands
    issued,             \* the device.cmd calls the handler made, in order
    allData,            \* the image a bulk read is assembling
    files,              \* the images written to the file system, in order
    outcome,            \* how the handler ended for its caller
    run,                \* arguments and locals of the running handler
    callers,            \* per caller of the session: where it stands, what it awaits
    dump,               \* the byte buffer handed to RFID.analyze, as it is now
    reports,            \* the reports the analyze calls returned, in call order
    transport,          \* fields of a transport object and of the Device holding it
    disconnects         \* the disconnect calls made on it, and the link operations

\* BLETransport / SerialTransport constructor: every link field is null;
\* held is Device.transport, which the Device constructor sets to null
NoTransport ==
    [kind |-> "ble", held |-> FALSE, device |-> FALSE, server |-> FALSE,
     service |-> FALSE, txCharacteristic |-> FALSE, rxCharacteristic |-> FALSE,
     port |-> FALSE, reader |-> FALSE, writer |-> FALSE, reading |-> FALSE]

\* no disconnect call was made and no link operation performed
NoDisconnects == [calls |-> <<>>, ops |-> <<>>]

\* the session's wiring and the command handler running on top of it
handlerVars == <<onDataCallback, pc, issued, allData, files, outcome, run, callers,
                 dump, reports, transport, disconnects>>

vars == <<driver, wire, buffer, readBuffer, responseBuffer, responseCallbacks,
          timers, promise, sent, written, answered, log, input, chunks,
          connected, handlerVars>>

Requests == 1..MaxSends
NoFrame == [cmd |-> 0, status |-> 0, data |-> <<>>]
Pending == [state |-> "pending", value |-> NoFrame, reason |-> "none"]

\* the part of the session a parseFrames call reads and writes:
\*   buffer  the local variable `buffer` of the loop
\*   field   the stored buffer (this.buffer / transport.readBuffer /
\*           this.responseBuffer)
Session(local, field) ==
    [buffer |-> local, field |-> field, cbs |-> responseCallbacks,
     timers |-> timers, promise |-> promise, log |-> log]

\* variant: the closure resolves without clearTimeout
responseCallbackNoClear(st, n, response) ==
    [st EXCEPT
        !.promise[n] = IF @.state = "pending"
                       THEN [state |-> "resolved", value |-> response, reason |-> "none"]
                       ELSE @]

\* variant: the closure rejects when the frame's status is not success
responseCallbackStatusThrows(st, n, response) ==
    [st EXCEPT
        !.timers[n] = IF @ = "armed" THEN "cleared" ELSE @,
        !.promise[n] = IF @.state = "pending"
                       THEN IF response.status = STATUS_SUCCESS
                            THEN [state |-> "resolved", value |-> response, reason |-> "none"]
                            ELSE [state |-> "rejected", value |-> NoFrame, reason |-> "status"]
                       ELSE @]

\* the closure stored by sendCommand for request n: clearTimeout, resolve
responseCallback(st, n, response) ==
    [st EXCEPT
        !.timers[n] = IF @ = "armed" THEN "cleared" ELSE @,
        !.promise[n] = IF @.state = "pending"
                       THEN [state |-> "resolved", value |-> response, reason |-> "none"]
                       ELSE @]

\* delete obj[key]
Delete(obj, key) == [k \in DOMAIN obj \ {key} |-> obj[k]]

\* variant: a failed check discards the whole buffer
skipAll(buf) == <<>>

\* variant: a failed check leaves the buffer as it is
skipNothing(buf) == buf

\* buffer.slice(1) on a failed check
skipByte(buf) == Tail(buf)

\* variant: LRC3 is not verified
lrcMismatchHeaderOnly(buf, pos) ==
    pos <= 8 /\ buf[pos + 1] # lrcCalc(SubSeq(buf, 1, pos))

\* buffer[pos] !== this.lrcCalc(buffer.slice(0, pos)), pos a 0-based offset:
\* 1 for LRC1, 8 for LRC2, 9 + dataLen for LRC3
lrcMismatch(buf, pos) == buf[pos + 1] # lrcCalc(SubSeq(buf, 1, pos))

\* big-endian uint16 at 0-based offset i
headerField(buf, i) == buf[i + 1] * 256 + buf[i + 2]

\* the entry the log keeps for a valid frame: the response, its bytes, and
\* whether the dispatch called a closure for it
LogEntry(response, raw, handed) ==
    [cmd |-> response.cmd, status |-> response.status, data |-> response.data,
     raw |-> raw, handed |-> handed]

\* variant: the frame goes to whichever closure is registered
dispatchAnyBLE(st, response) ==
    IF DOMAIN st.cbs # {}
    THEN LET k == CHOOSE k \in DOMAIN st.cbs : TRUE
         IN [responseCallback(st, st.cbs[k], response) EXCEPT !.cbs = Delete(st.cbs, k)]
    ELSE st

\* "Valid frame received": look the callback up by cmd, call it, delete it
dispatchBLE(st, response) ==
    IF response.cmd \in DOMAIN st.cbs
    THEN [responseCallback(st, st.cbs[response.cmd], response)
            EXCEPT !.cbs = Delete(st.cbs, response.cmd)]
    ELSE st

\* a pass through the body of the while loop: the session afterwards, and
\* whether the loop goes round again (more) or is left
stop(st) == [st |-> st, more |-> FALSE]
again(st) == [st |-> st, more |-> TRUE]

\* one iteration of `while (buffer.length > 0)` in ChameleonUltraBLE.parseFrames
iterationBLE(st) ==
    LET b == st.buffer
        skip == [st EXCEPT !.buffer = skipByte(b), !.field = skipByte(b)]
    IN
    IF Len(b) = 0 \/ Len(b) < 9 THEN stop(st)
    ELSE IF b[1] # SOF THEN again(skip)
    ELSE IF lrcMismatch(b, 1) THEN again(skip)
    ELSE
      LET cmd == headerField(b, 2)
          status == headerField(b, 4)
          dataLen == headerField(b, 6)
          frameLen == 9 + dataLen + 1
      IN
      IF Len(b) < frameLen THEN stop(st)
      ELSE IF lrcMismatch(b, 8) THEN again(skip)
      ELSE
        LET data == SubSeq(b, 10, 9 + dataLen) IN
        IF lrcMismatch(b, 9 + dataLen) THEN again(skip)
        ELSE
          LET response == [cmd |-> cmd, status |-> status, data |-> data]
              st1 == dispatchBLE(st, response)
              rest == SubSeq(b, frameLen + 1, Len(b))
          IN again(
                [st1 EXCEPT
                    !.log = Append(@, LogEntry(response, SubSeq(b, 1, frameLen),
                                               st1 # st)),
                    !.buffer = rest,
                    !.field = rest])

\* ChameleonUltraBLE.parseFrames(buffer)
RECURSIVE parseFramesBLE(_)
parseFramesBLE(st) ==
    LET r == iterationBLE(st)
    IN IF r.more THEN parseFramesBLE(r.st) ELSE r.st


\* transport.clearBuffer()
clearBuffer(st) == [st EXCEPT !.field = <<>>]

dispatchSerial(st, response) ==
    IF response.cmd \in DOMAIN st.cbs
    THEN [responseCallback(st, st.cbs[response.cmd], response)
            EXCEPT !.cbs = Delete(st.cbs, response.cmd)]
    ELSE st

\* one iteration of `while (buffer.length > 0)` in
\* ChameleonUltraSerial.parseFrames
iterationSerial(st) ==
    LET b == st.buffer
        \* buffer = buffer.slice(1); temp = copy; clearBuffer();
        \* transport.readBuffer = temp; buffer = temp
        skip == [clearBuffer(st) EXCEPT !.field = skipByte(b), !.buffer = skipByte(b)]
    IN
    IF Len(b) = 0 \/ Len(b) < 9 THEN stop(st)
    ELSE IF b[1] # SOF THEN again(skip)
    ELSE IF lrcMismatch(b, 1) THEN again(skip)
    ELSE
      LET cmd == headerField(b, 2)
          status == headerField(b, 4)
          dataLen == headerField(b, 6)
          frameLen == 9 + dataLen + 1
      IN
      IF Len(b) < frameLen THEN stop(st)
      ELSE IF lrcMismatch(b, 8) THEN again(skip)
      ELSE
        LET data == SubSeq(b, 10, 9 + dataLen) IN
        IF lrcMismatch(b, 9 + dataLen) THEN again(skip)
        ELSE
          LET response == [cmd |-> cmd, status |-> status, data |-> data]
              st0 == dispatchSerial(st, response)
              st1 == [st0 EXCEPT
                        !.log = Append(@, LogEntry(response, SubSeq(b, 1, frameLen),
                                                   st0 # st))]
              remaining == SubSeq(b, frameLen + 1, Len(b))
              st2 == clearBuffer(st1)
          IN IF Len(remaining) > 0
             THEN again([st2 EXCEPT !.field = remaining, !.buffer = remaining])
             ELSE stop(st2)

\* ChameleonUltraSerial.parseFrames(buffer)
RECURSIVE parseFramesSerial(_)
parseFramesSerial(st) ==
    LET r == iterationSerial(st)
    IN IF r.more THEN parseFramesSerial(r.st) ELSE r.st

\* variant: the frame goes to whichever closure is registered
handleResponseAny(st, response) ==
    IF DOMAIN st.cbs # {}
    THEN LET k == CHOOSE k \in DOMAIN st.cbs : TRUE
         IN [responseCallback(st, st.cbs[k], response) EXCEPT !.cbs = Delete(st.cbs, k)]
    ELSE st

\* legacy handleResponse(cmd, status, data)
handleResponse(st, response) ==
    IF response.cmd \in DOMAIN st.cbs
    THEN [responseCallback(st, st.cbs[response.cmd], response)
            EXCEPT !.cbs = Delete(st.cbs, response.cmd)]
    ELSE st

\* the legacy loop works on this.responseBuffer itself
RECURSIVE parseFramesLegacy(_)
parseFramesLegacy(st) ==
    LET b == st.field
        skip == [st EXCEPT !.field = skipByte(b), !.buffer = skipByte(b)]
    IN
    IF Len(b) = 0 \/ Len(b) < 9 THEN st
    ELSE IF b[1] # SOF THEN parseFramesLegacy(skip)
    ELSE IF lrcMismatch(b, 1) THEN parseFramesLegacy(skip)
    ELSE
      LET cmd == headerField(b, 2)
          status == headerField(b, 4)
          dataLen == headerField(b, 6)
          frameLen == 9 + dataLen + 1
      IN
      IF Len(b) < frameLen THEN st
      ELSE IF lrcMismatch(b, 8) THEN parseFramesLegacy(skip)
      ELSE
        LET data == SubSeq(b, 10, 9 + dataLen) IN
        IF lrcMismatch(b, 9 + dataLen) THEN parseFramesLegacy(skip)
        ELSE
          LET response == [cmd |-> cmd, status |-> status, data |-> data]
              st1 == handleResponse(st, response)
              rest == SubSeq(b, frameLen + 1, Len(b))
          IN parseFramesLegacy(
                [st1 EXCEPT
                    !.log = Append(@, LogEntry(response, SubSeq(b, 1, frameLen),
                                               st1 # st)),
                    !.field = rest,
                    !.buffer = rest])

\* variant: the new chunk replaces what was buffered
replaceChunk(old, data) == data

\* newBuffer = old ++ data (BLE onData handler, serial read loop, legacy
\* handleNotifications)
appendChunk(old, data) == old \o data

\* ------------------------------------------------- inbound data handlers
\* what the session is after a parseFrames call, written back to the state
Store(st) ==
    /\ responseCallbacks' = st.cbs
    /\ timers' = st.timers
    /\ promise' = st.promise
    /\ log' = st.log

\* ChameleonUltraBLE.connect: transport.onData((data) => ...)
onDataBLE(data) ==
    LET newBuffer == appendChunk(buffer, data)
        st == parseFramesBLE(Session(newBuffer, newBuffer))
    IN /\ buffer' = st.field
       /\ Store(st)
       /\ UNCHANGED <<readBuffer, responseBuffer>>

\* SerialTransport.startReadLoop appends the chunk to readBuffer and calls
\* the callback ChameleonUltraSerial.connect registered, which parses
\* transport.getBuffer()
onDataSerial(data) ==
    LET newBuffer == appendChunk(readBuffer, data)
        st == parseFramesSerial(Session(newBuffer, newBuffer))
    IN /\ readBuffer' = st.field
       /\ Store(st)
       /\ UNCHANGED <<buffer, responseBuffer>>

\* legacy handleNotifications(event)
handleNotifications(data) ==
    LET newBuffer == appendChunk(responseBuffer, data)
        st == parseFramesLegacy(Session(newBuffer, newBuffer))
    IN /\ responseBuffer' = st.field
       /\ Store(st)
       /\ UNCHANGED <<buffer, readBuffer>>

\* the link hands the next k bytes in flight to the transport as one chunk
OnData(k) ==
    /\ connected
    /\ k \in 1..Len(wire)
    /\ LET data == SubSeq(wire, 1, k) IN
         CASE driver = "ble" -> onDataBLE(data)
           [] driver = "serial" -> onDataSerial(data)
           [] driver = "legacy" -> handleNotifications(data)
    /\ wire' = SubSeq(wire, k + 1, Len(wire))
    /\ UNCHANGED <<driver, sent, written, answered, input, connected>>
    /\ UNCHANGED handlerVars

\* the buffer the session's decoder keeps between chunks
Buffered ==
    CASE driver = "ble" -> buffer
      [] driver = "serial" -> readBuffer
      [] driver = "legacy" -> responseBuffer


\* -------------------------------------------------------- command channel
\* this.responseCallbacks[cmd] = closure of request n
Register(cbs, cmd, n) ==
    [k \in DOMAIN cbs \cup {cmd} |-> IF k = cmd THEN n ELSE cbs[k]]

\* reject(new Error(...)) of request n: settles the promise if still pending
Reject(p, n, why) ==
    [p EXCEPT ![n] = IF @.state = "pending"
                     THEN [state |-> "rejected", value |-> NoFrame, reason |-> why]
                     ELSE @]

\* BLETransport.send / SerialTransport.send: throws when the link is down,
\* else the frame is written to the device
transportSend(frame) ==
    written' = IF connected THEN Append(written, frame) ELSE written

\* the record of a sendCommand call: its arguments and, for the history, what
\* the earlier calls with the same command id had come to when it was made
\* (over: the earlier calls with that id that were still pending), and
\* whether the link was up (up)
Call(cmd, data) ==
    LET same == {m \in 1..Len(sent) : sent[m].cmd = cmd} IN
    [cmd |-> cmd, data |-> data,
     afterTimeout |-> \E m \in same : promise[m].reason = "timeout",
     alone |-> \A m \in same : promise[m].state # "pending",
     over |-> {m \in same : promise[m].state = "pending"},
     up |-> connected]

\* ChameleonUltraBLE.sendCommand(cmd, data, status = 0): request n.
\* The executor arms the timer, stores the closure, then awaits the write;
\* a throwing write rejects only the executor's own promise.
sendCommandBLE(n, cmd, data) ==
    /\ sent' = Append(sent, Call(cmd, data))
    /\ timers' = [timers EXCEPT ![n] = "armed"]
    /\ responseCallbacks' = Register(responseCallbacks, cmd, n)
    /\ transportSend(makeDataFrame(cmd, data, 0))
    /\ UNCHANGED promise

\* ChameleonUltraSerial.sendCommand(cmd, data, status = 0)
sendCommandSerial(n, cmd, data) ==
    /\ sent' = Append(sent, Call(cmd, data))
    /\ timers' = [timers EXCEPT ![n] = "armed"]
    /\ responseCallbacks' = Register(responseCallbacks, cmd, n)
    /\ transportSend(makeDataFrame(cmd, data, 0))
    /\ UNCHANGED promise

\* legacy sendCmd(cmd, data, status = 0): rejects at once when the device is
\* not connected, before any timer or closure exists
sendCmd(n, cmd, data) ==
    /\ sent' = Append(sent, Call(cmd, data))
    /\ IF ~connected
       THEN /\ promise' = Reject(promise, n, "not connected")
            /\ UNCHANGED <<timers, responseCallbacks, written>>
       ELSE /\ timers' = [timers EXCEPT ![n] = "armed"]
            /\ responseCallbacks' = Register(responseCallbacks, cmd, n)
            /\ written' = Append(written, makeDataFrame(cmd, data, 0))
            /\ UNCHANGED promise

\* a caller sends command c; the payload is the call's number, so that the
\* answer to one call differs from the answer to every other call
cmd(c) ==
    /\ Len(sent) < MaxSends
    /\ LET n == Len(sent) + 1 IN
         CASE driver = "ble" -> sendCommandBLE(n, c, <<n>>)
           [] driver = "serial" -> sendCommandSerial(n, c, <<n>>)
           [] driver = "legacy" -> sendCmd(n, c, <<n>>)
    /\ UNCHANGED <<driver, wire, buffer, readBuffer, responseBuffer, answered,
                   log, input, chunks, connected>>

\* a caller outside the model's handlers sends command c
SendCommand(c) ==
    /\ cmd(c)
    /\ UNCHANGED handlerVars

\* variant: the timeout rejects but leaves the entry in responseCallbacks
timeoutKeepEntry(n) ==
    /\ timers' = [timers EXCEPT ![n] = "fired"]
    /\ UNCHANGED responseCallbacks
    /\ promise' = Reject(promise, n, "timeout")

\* variant: the timer rejects only while its own closure is still stored
timeoutIfStored(n) ==
    IF sent[n].cmd \in DOMAIN responseCallbacks /\ responseCallbacks[sent[n].cmd] = n
    THEN /\ timers' = [timers EXCEPT ![n] = "fired"]
         /\ responseCallbacks' = Delete(responseCallbacks, sent[n].cmd)
         /\ promise' = Reject(promise, n, "timeout")
    ELSE /\ timers' = [timers EXCEPT ![n] = "fired"]
         /\ UNCHANGED <<responseCallbacks, promise>>

\* the setTimeout callback of request n (BLE)
timeoutBLE(n) ==
    /\ timers' = [timers EXCEPT ![n] = "fired"]
    /\ responseCallbacks' = Delete(responseCallbacks, sent[n].cmd)
    /\ promise' = Reject(promise, n, "timeout")

\* variant: setInterval for setTimeout, the timer keeps firing
timeoutInterval(n) ==
    /\ UNCHANGED timers
    /\ responseCallbacks' = Delete(responseCallbacks, sent[n].cmd)
    /\ promise' = Reject(promise, n, "timeout")

\* the setTimeout callback of request n (Serial)
timeoutSerial(n) ==
    /\ timers' = [timers EXCEPT ![n] = "fired"]
    /\ responseCallbacks' = Delete(responseCallbacks, sent[n].cmd)
    /\ promise' = Reject(promise, n, "timeout")

\* the setTimeout callback of request n (legacy)
timeoutLegacy(n) ==
    /\ timers' = [timers EXCEPT ![n] = "fired"]
    /\ responseCallbacks' = Delete(responseCallbacks, sent[n].cmd)
    /\ promise' = Reject(promise, n, "timeout")

\* the timer of request n expires
Timeout(n) ==
    /\ timers[n] = "armed"
    /\ CASE driver = "ble" -> timeoutBLE(n)
         [] driver = "serial" -> timeoutSerial(n)
         [] driver = "legacy" -> timeoutLegacy(n)
    /\ UNCHANGED <<driver, wire, buffer, readBuffer, responseBuffer, sent,
                   written, answered, log, input, chunks, connected>>
    /\ UNCHANGED handlerVars

\* the device answers the i-th frame written to it: same command id, the
\* request's payload echoed, a status of its choice
DeviceAnswer(i, status) ==
    /\ connected
    /\ i \in 1..Len(written)
    /\ i \notin answered
    /\ answered' = answered \cup {i}
    /\ wire' = wire \o makeDataFrame(headerField(written[i], 2),
                                     SubSeq(written[i], 10, Len(written[i]) - 1),
                                     status)
    /\ UNCHANGED <<driver, buffer, readBuffer, responseBuffer, responseCallbacks,
                   timers, promise, sent, written, log, input, chunks, connected>>
    /\ UNCHANGED handlerVars

\* the link goes down; bytes in flight are lost
Disconnect ==
    /\ connected
    /\ connected' = FALSE
    /\ wire' = <<>>
    /\ UNCHANGED <<driver, buffer, readBuffer, responseBuffer, responseCallbacks,
                   timers, promise, sent, written, answered, log, input, chunks>>
    /\ UNCHANGED handlerVars

\* the link hands over all the bytes in flight, or the first Mtu of them
ChunkSizes == {Len(wire), Mtu}

Deliver(k) == OnData(k) /\ UNCHANGED chunks

\* ------------------------------------------------------------ codec runs
\* a codec run feeds one drawn stream to the session's decoder in chunks:
\* noise bytes, then one encoded frame, possibly with one bit flipped

\* b with bit k (0..7) inverted
FlipBit(b, k) == IF (b \div (2 ^ k)) % 2 = 1 THEN b - 2 ^ k ELSE b + 2 ^ k

\* frame with bit k of the byte at 0-based offset pos inverted
Corrupt(frame, pos, k) == [frame EXCEPT ![pos + 1] = FlipBit(@, k)]

\* 0-based offsets of SOF, CMD, STATUS, LEN and DATA bytes of a frame whose
\* payload has n bytes (the three checksum bytes are at 1, 8 and 9 + n)
FlipOffsets(n) == {0} \cup (2..7) \cup (9..(8 + n))

NoFlip == <<>>

\* noise that is itself an encoded frame
GarbageFrames == {makeDataFrame(CMD_GET_ACTIVE_SLOT, <<>>, STATUS_SUCCESS)}

Garbage == SeqsUpTo(GarbageBytes, MaxGarbage) \cup GarbageFrames

CodecInputs ==
    {[cmd |-> c, status |-> s, data |-> d, garbage |-> g, flip |-> NoFlip] :
        c \in CodecCmds, s \in CodecStatus, d \in Payloads, g \in Garbage}
    \cup
    UNION {{[cmd |-> c, status |-> s, data |-> d, garbage |-> <<>>, flip |-> <<pos, k>>] :
              c \in CodecCmds, s \in {STATUS_SUCCESS}, pos \in FlipOffsets(Len(d)), k \in 0..7} :
           d \in Payloads}

\* the frame of a drawn input, as encoded
InputFrame(in) == makeDataFrame(in.cmd, in.data, in.status)

\* the bytes of a drawn input, as they reach the link
Stream(in) ==
    in.garbage \o
    (IF in.flip = NoFlip THEN InputFrame(in)
     ELSE Corrupt(InputFrame(in), in.flip[1], in.flip[2]))

\* no command handler is running
NoRun == [oper |-> "none"]

\* the callers that share one session: the status bar's interval, the status
\* bar's event hooks, and the shell's commands
Callers == {"poll", "event", "shell"}

\* no caller has a command outstanding
NoCallers == [c \in Callers |-> [pc |-> "idle", req |-> 0]]

\* the session is wired to its transport and no command handler is running
Wired ==
    /\ onDataCallback = "parser"
    /\ pc = "idle"
    /\ issued = <<>>
    /\ allData = <<>>
    /\ files = <<>>
    /\ outcome = "none"
    /\ run = NoRun
    /\ callers = NoCallers
    /\ dump = <<>>
    /\ reports = <<>>
    /\ transport = NoTransport
    /\ disconnects = NoDisconnects

\* state right after construction of the session object
Constructed ==
    /\ buffer = <<>>
    /\ readBuffer = <<>>
    /\ responseBuffer = <<>>
    /\ responseCallbacks = <<>>
    /\ timers = [n \in Requests |-> "none"]
    /\ promise = [n \in Requests |-> Pending]
    /\ sent = <<>>
    /\ written = <<>>
    /\ answered = {}
    /\ log = <<>>

InitCodec ==
    /\ driver \in Drivers
    /\ input \in CodecInputs
    /\ wire = Stream(input)
    /\ chunks = "none"
    /\ connected = TRUE
    /\ buffer = <<>>
    /\ readBuffer = <<>>
    /\ responseBuffer = <<>>
    /\ log = <<>>
    \* request 1, sendCommand(input.cmd), is outstanding when the stream arrives
    /\ sent = <<[cmd |-> input.cmd, data |-> <<>>, afterTimeout |-> FALSE, alone |-> TRUE,
               over |-> {}, up |-> TRUE]>>
    /\ written = <<makeDataFrame(input.cmd, <<>>, 0)>>
    /\ answered = {1}
    /\ responseCallbacks = Register(<<>>, input.cmd, 1)
    /\ timers = [n \in Requests |-> IF n = 1 THEN "armed" ELSE "none"]
    /\ promise = [n \in Requests |-> Pending]
    /\ Wired

CodecOnData(k) ==
    /\ OnData(k)
    /\ chunks' = IF chunks = "none" THEN "one" ELSE "many"

NextCodec == \E k \in 1..Len(wire) : CodecOnData(k)

SpecCodec == InitCodec /\ [][NextCodec]_vars


\* ---------------------------------------------------------- channel runs
ReplyStatus == {STATUS_SUCCESS, STATUS_PAR_ERR}

Init ==
    /\ driver \in Drivers
    /\ wire = <<>>
    /\ input = [cmd |-> 0, status |-> 0, data |-> <<>>, garbage |-> <<>>, flip |-> NoFlip]
    /\ chunks = "none"
    /\ connected = TRUE
    /\ Constructed
    /\ Wired

Next ==
    \/ \E c \in CmdIds : SendCommand(c)
    \/ \E i \in 1..Len(written), s \in ReplyStatus : DeviceAnswer(i, s)
    \/ \E k \in ChunkSizes : Deliver(k)
    \/ \E n \in Requests : Timeout(n)
    \/ Disconnect

Spec == Init /\ [][Next]_vars


\* ------------------------------------------------------ command handlers
\* The handlers and scripts built on device.cmd: each step is one awaited
\* round trip, from the call to the point where the handler awaits again.

\* most chunk responses of one run that are not the expected one: a data
\* length that is not the length asked for, a failure status, a timeout
MaxFaults == 1

CMD_SET_ACTIVE_MODE == 1001
CMD_HF14A_SCAN == 2000
CMD_HF14A_RAW == 2010
HF_TAG_OK == 0

\* what awaiting device.cmd(...) gives: the response frame, or the rejection
\* of the promise (timeout)
Resolves(status, data) == [kind |-> "resolved", status |-> status, data |-> data]
Rejected == [kind |-> "rejected", status |-> 0, data |-> <<>>]

\* device.cmd(c, d) / chameleonUltra.cmd(c, d) is called and awaited: the
\* call is noted with what came of it
deviceCmd(c, d, r) ==
    issued' = Append(issued, [cmd |-> c, data |-> d,
                              answer |-> [kind |-> r.kind, status |-> r.status,
                                          head |-> IF r.data = <<>> THEN -1
                                                   ELSE r.data[1]]])

\* the session underneath is left alone by a handler step
channelVars == <<driver, wire, buffer, readBuffer, responseBuffer,
                 responseCallbacks, timers, promise, sent, written, answered,
                 log, input, chunks, connected>>

\* a handler step leaves the session, its wiring and its other callers alone
sessionVars == <<channelVars, onDataCallback, callers, dump, reports,
                transport, disconnects>>

\* byte i (0-based) of the memory of the tag or slot that is read
tagMemory(i) == (i % 251) + 1

\* n bytes of that memory from 0-based offset from
tagBytes(from, n) == [i \in 1..n |-> tagMemory(from + i - 1)]

\* new Uint8Array(n)
zeros(n) == [i \in 1..n |-> 0]

\* variant: the source is stored at the start of the target
setAtStart(target, source, offset) ==
    [i \in 1..Len(target) |->
        IF i <= Len(source) THEN source[i] ELSE target[i]]

\* target.set(source, offset), the source fitting into the target
typedArraySet(target, source, offset) ==
    [i \in 1..Len(target) |->
        IF i > offset /\ i <= offset + Len(source) THEN source[i - offset]
        ELSE target[i]]

\* a.slice(0, n)
sliceTo(a, n) == SubSeq(a, 1, IF n < Len(a) THEN n ELSE Len(a))

Min(a, b) == IF a < b THEN a ELSE b

CeilDiv(a, b) == (a + b - 1) \div b

\* arguments and locals of a handler before it starts; a handler uses the
\* fields it has
IdleRun ==
    [oper |-> "none", exit |-> "none", error |-> <<>>,
     attempt |-> 0, page |-> 0, odd |-> 0,
     slotGiven |-> FALSE, slotNum |-> 0, frequency |-> "hf",
     hf |-> 0, lf |-> 0, tagType |-> 0, index |-> 0,
     tagTypeValue |-> 0, fileLen |-> 0, saveToFlash |-> FALSE]

\* ---- NTAG215 Scanner (scan and save)
maxRetries == 5
totalPages == 135
pageSize == 4

\* variant: the failure of a chunk is not reported
chunkErrorSilent(first, last, status) == <<>>

\* logToConsole(`Error reading pages ${first}-${last}: Status ${status}`, true):
\* the error message a failed chunk is reported with
chunkError(first, last, status) == <<first, last, status>>

\* the script's exit is noted in run.exit and control goes to the finally block
scanExit(how) ==
    /\ pc' = "finally"
    /\ run' = [run EXCEPT !.exit = how]

\* if (!chameleonUltra || !chameleonUltra.isConnected()) return;
scanCheckConnected ==
    /\ pc = "start" /\ run.oper = "scan"
    /\ IF connected
       THEN pc' = "mode" /\ UNCHANGED outcome
       ELSE pc' = "done" /\ outcome' = "returned"
    /\ UNCHANGED <<issued, allData, files, run>>
    /\ UNCHANGED sessionVars

\* Step 0: switch to reader mode
scanReaderMode(r) ==
    /\ pc = "mode" /\ run.oper = "scan"
    /\ deviceCmd(CMD_SET_ACTIVE_MODE, <<1>>, r)
    /\ IF r.kind = "rejected" THEN scanExit("thrown")
       ELSE IF r.status # STATUS_SUCCESS THEN scanExit("refused")
       ELSE pc' = "scan" /\ run' = [run EXCEPT !.attempt = 1]
    /\ UNCHANGED <<allData, files, outcome>>
    /\ UNCHANGED sessionVars

\* the scan response parses: data[1 + uidLen + 2] (SAK) exists
scanParses(data) == Len(data) >= data[1] + 4

\* variant: one attempt more than maxRetries
scanAttemptOneMore(r) ==
    /\ pc = "scan" /\ run.oper = "scan"
    /\ deviceCmd(CMD_HF14A_SCAN, <<>>, r)
    /\ IF r.kind = "rejected" THEN scanExit("thrown") /\ UNCHANGED allData
       ELSE IF Len(r.data) > 0
       THEN IF scanParses(r.data)
            THEN /\ pc' = "read"
                 /\ run' = [run EXCEPT !.page = 0]
                 /\ allData' = zeros(totalPages * pageSize)
            ELSE scanExit("thrown") /\ UNCHANGED allData
       ELSE IF run.attempt <= maxRetries
       THEN /\ pc' = "scan"
            /\ run' = [run EXCEPT !.attempt = @ + 1]
            /\ UNCHANGED allData
       ELSE scanExit("notag") /\ UNCHANGED allData
    /\ UNCHANGED <<files, outcome>>
    /\ UNCHANGED sessionVars

\* Step 1: one attempt of the scan loop, and after the loop the parse of the
\* scan response and the allocation of allData
scanAttempt(r) ==
    /\ pc = "scan" /\ run.oper = "scan"
    /\ deviceCmd(CMD_HF14A_SCAN, <<>>, r)
    /\ IF r.kind = "rejected" THEN scanExit("thrown") /\ UNCHANGED allData
       ELSE IF Len(r.data) > 0
       THEN IF scanParses(r.data)
            THEN /\ pc' = "read"
                 /\ run' = [run EXCEPT !.page = 0]
                 /\ allData' = zeros(totalPages * pageSize)
            ELSE scanExit("thrown") /\ UNCHANGED allData
       ELSE IF run.attempt < maxRetries
       THEN /\ pc' = "scan"
            /\ run' = [run EXCEPT !.attempt = @ + 1]
            /\ UNCHANGED allData
       ELSE scanExit("notag") /\ UNCHANGED allData
    /\ UNCHANGED <<files, outcome>>
    /\ UNCHANGED sessionVars

\* the HF14A_RAW payload of the READ of a page
readCmd(page) ==
    LET options == IF page = 0 THEN 128 + 64 + 32 + 16 + 8 + 4
                   ELSE 128 + 64 + 32 + 8 + 4
        timeoutMs == 100
        bitLen == 2 * 8
    IN <<options, (timeoutMs \div 256) % 256, timeoutMs % 256,
         (bitLen \div 256) % 256, bitLen % 256, 48, page>>

\* the response's data length was not the one asked for
odd(r, n) == r.kind = "resolved" /\ Len(r.data) # n

\* Step 2: one pass of the page loop
scanReadPage(r) ==
    /\ pc = "read" /\ run.oper = "scan"
    /\ deviceCmd(CMD_HF14A_RAW, readCmd(run.page), r)
    /\ IF r.kind = "rejected" THEN scanExit("thrown") /\ UNCHANGED allData
       ELSE IF r.status # HF_TAG_OK
       THEN /\ pc' = "finally"
            /\ run' = [run EXCEPT !.exit = "pagefail",
                                  !.error = chunkError(run.page, run.page, r.status)]
            /\ UNCHANGED allData
       ELSE LET dataReceived == sliceTo(r.data, 16)
                copyLen == Min(16, (totalPages - run.page) * pageSize)
            IN /\ allData' = typedArraySet(allData, sliceTo(dataReceived, copyLen),
                                           run.page * pageSize)
               /\ run' = [run EXCEPT !.page = @ + 4,
                                     !.odd = IF odd(r, 16) THEN @ + 1 ELSE @]
               /\ pc' = IF run.page + 4 < totalPages THEN "read" ELSE "save"
    /\ UNCHANGED <<files, outcome>>
    /\ UNCHANGED sessionVars

\* Step 3: fs.writeFile(filename, allData), which may throw
scanSave(ok) ==
    /\ pc = "save" /\ run.oper = "scan"
    /\ files' = IF ok THEN Append(files, allData) ELSE files
    /\ scanExit(IF ok THEN "success" ELSE "thrown")
    /\ UNCHANGED <<issued, allData, outcome>>
    /\ UNCHANGED sessionVars

\* variant: the restoration is skipped when the script returned early
scanRestoreUnlessReturned(r) ==
    /\ pc = "finally" /\ run.oper = "scan"
    /\ IF run.exit \in {"refused", "notag", "pagefail"}
       THEN UNCHANGED issued
       ELSE deviceCmd(CMD_SET_ACTIVE_MODE, <<0>>, r)
    /\ pc' = "done"
    /\ outcome' = "returned"
    /\ UNCHANGED <<allData, files, run>>
    /\ UNCHANGED sessionVars

\* finally: switch back to emulator mode; a failure of that command is caught
scanRestore(r) ==
    /\ pc = "finally" /\ run.oper = "scan"
    /\ deviceCmd(CMD_SET_ACTIVE_MODE, <<0>>, r)
    /\ pc' = "done"
    /\ outcome' = "returned"
    /\ UNCHANGED <<allData, files, run>>
    /\ UNCHANGED sessionVars

\* what the device may answer
ModeResponses == {Resolves(STATUS_SUCCESS, <<>>), Resolves(STATUS_PAR_ERR, <<>>), Rejected}

\* UID_LEN, UID, ATQA, SAK, ATS_LEN of an NTAG215
ntagScanData == <<7, 4, 1, 2, 3, 4, 5, 6, 68, 0, 0, 0>>

ScanResponses ==
    {Resolves(STATUS_PAR_ERR, <<>>), Resolves(HF_TAG_OK, ntagScanData),
     Resolves(HF_TAG_OK, <<7>>), Rejected}

PageResponses ==
    {Resolves(HF_TAG_OK, tagBytes(run.page * pageSize, 16))}
    \cup (IF run.odd < MaxFaults
          THEN {Resolves(STATUS_PAR_ERR, <<>>), Rejected,
                Resolves(HF_TAG_OK, tagBytes(run.page * pageSize, 8)),
                Resolves(HF_TAG_OK, tagBytes(run.page * pageSize, 18))}
          ELSE {})

ScanRun == [IdleRun EXCEPT !.oper = "scan"]

InitScan ==
    /\ driver = "ble"
    /\ wire = <<>>
    /\ input = [cmd |-> 0, status |-> 0, data |-> <<>>, garbage |-> <<>>, flip |-> NoFlip]
    /\ chunks = "none"
    /\ connected \in BOOLEAN
    /\ Constructed
    /\ onDataCallback = "parser"
    /\ callers = NoCallers
    /\ dump = <<>>
    /\ reports = <<>>
    /\ transport = NoTransport
    /\ disconnects = NoDisconnects
    /\ pc = "start"
    /\ issued = <<>>
    /\ allData = <<>>
    /\ files = <<>>
    /\ outcome = "running"
    /\ run = ScanRun

NextScan ==
    \/ scanCheckConnected
    \/ \E r \in ModeResponses : scanReaderMode(r)
    \/ \E r \in ScanResponses : scanAttempt(r)
    \/ \E r \in PageResponses : scanReadPage(r)
    \/ \E ok \in BOOLEAN : scanSave(ok)
    \/ \E r \in ModeResponses : scanRestore(r)

SpecScan == InitScan /\ [][NextScan]_vars


\* ---- chameleonultra slot save [slot] <hf|lf> [path]
CMD_SET_ACTIVE_SLOT == 1003
CMD_GET_SLOT_INFO == 1019
CMD_MF0_NTAG_READ_EMU_PAGE_DATA == 4021
CMD_MF1_READ_EMU_BLOCK_DATA == 4008
CMD_EM410X_GET_EMU_ID == 5001
blockSize == 16
\* units per read or write request
unitsPerRequest == 32

\* const pageCounts = {...}; totalPages = pageCounts[tagType] || 135
pageCounts(tagType) ==
    CASE tagType = 1100 -> 45
      [] tagType = 1101 -> 135
      [] tagType = 1102 -> 231
      [] tagType = 1107 -> 20
      [] tagType = 1108 -> 41
      [] OTHER -> 135

\* const blockCounts = {...}; totalBlocks = blockCounts[tagType] || 64
blockCounts(tagType) ==
    CASE tagType = 1000 -> 20
      [] tagType = 1001 -> 64
      [] tagType = 1002 -> 128
      [] tagType = 1003 -> 256
      [] OTHER -> 64

isNtag(tagType) == tagType >= 1100 /\ tagType <= 1108
isMifareClassic(tagType) == tagType >= 1000 /\ tagType <= 1003
isEm410x(tagType) == tagType = 100 \/ (tagType >= 100 /\ tagType <= 103)

\* the handler returns (or its catch block has run): it ends for its caller
\* by a normal return, the reason noted in run.exit
handlerReturn(how) ==
    /\ pc' = "done"
    /\ outcome' = "returned"
    /\ run' = [run EXCEPT !.exit = how]

\* variant: a reported error ends the handler by a throw
handlerThrow(how) ==
    /\ pc' = "done"
    /\ outcome' = "thrown"
    /\ run' = [run EXCEPT !.exit = how]

\* a chunk came back with a failure status: the error is logged and the
\* handler returns
chunkFailed(first, last, status) ==
    /\ pc' = "done"
    /\ outcome' = "returned"
    /\ run' = [run EXCEPT !.exit = "chunkfail",
                          !.error = chunkError(first, last, status)]

\* the 32 bytes GET_SLOT_INFO answers with: hf type and lf type of 8 slots
slotInfoData(hf, lf) ==
    [i \in 1..32 |->
        CASE (i - 1) % 4 = 0 -> (hf \div 256) % 256
          [] (i - 1) % 4 = 1 -> hf % 256
          [] (i - 1) % 4 = 2 -> (lf \div 256) % 256
          [] OTHER -> lf % 256]

\* the slot number is taken from the arguments (run.slotGiven), else it is
\* null and asked for below
saveStart ==
    /\ pc = "start" /\ run.oper = "save"
    /\ pc' = IF run.slotGiven THEN "slotinfo" ELSE "getslot"
    /\ UNCHANGED <<issued, allData, files, outcome, run>>
    /\ UNCHANGED sessionVars

\* if (slotNum === null) { currentSlot = await device.cmd(CMD_GET_ACTIVE_SLOT) ...
saveGetSlot(r) ==
    /\ pc = "getslot" /\ run.oper = "save"
    /\ deviceCmd(CMD_GET_ACTIVE_SLOT, <<>>, r)
    /\ IF r.kind = "rejected" THEN handlerReturn("thrown")
       ELSE IF r.status # STATUS_SUCCESS THEN handlerReturn("noslot")
       ELSE /\ pc' = "slotinfo"
            /\ run' = [run EXCEPT !.slotNum = r.data[1]]
            /\ UNCHANGED outcome
    /\ UNCHANGED <<allData, files>>
    /\ UNCHANGED sessionVars

\* slotInfo = await device.cmd(CMD_GET_SLOT_INFO): the tag type of the slot
saveSlotInfo(r) ==
    /\ pc = "slotinfo" /\ run.oper = "save"
    /\ deviceCmd(CMD_GET_SLOT_INFO, <<>>, r)
    /\ IF r.kind = "rejected" THEN handlerReturn("thrown")
       ELSE IF r.status # STATUS_SUCCESS THEN handlerReturn("noinfo")
       ELSE LET slotIndex == run.slotNum * 4
                hfType == r.data[slotIndex + 1] * 256 + r.data[slotIndex + 2]
                lfType == r.data[slotIndex + 3] * 256 + r.data[slotIndex + 4]
                tagType == IF run.frequency = "hf" THEN hfType ELSE lfType
            IN IF tagType = 0 THEN handlerReturn("empty")
               ELSE /\ pc' = "slotcheck"
                    /\ run' = [run EXCEPT !.tagType = tagType]
                    /\ UNCHANGED outcome
    /\ UNCHANGED <<allData, files>>
    /\ UNCHANGED sessionVars

\* where the handler goes once the slot is the active one
saveDispatch ==
    IF run.frequency = "hf"
    THEN IF isNtag(run.tagType) \/ isMifareClassic(run.tagType) THEN "read"
         ELSE "unsupported"
    ELSE IF isEm410x(run.tagType) THEN "readid" ELSE "unsupported"

\* the handler is past the slot switch: the read starts, or the tag type is
\* not supported
saveEnter ==
    IF saveDispatch = "unsupported"
    THEN handlerReturn("unsupported")
    ELSE /\ pc' = saveDispatch
         /\ UNCHANGED <<outcome, run>>

\* currentSlotCheck = await device.cmd(CMD_GET_ACTIVE_SLOT)
saveSlotCheck(r) ==
    /\ pc = "slotcheck" /\ run.oper = "save"
    /\ deviceCmd(CMD_GET_ACTIVE_SLOT, <<>>, r)
    /\ IF r.kind = "rejected" THEN handlerReturn("thrown")
       ELSE IF r.status = STATUS_SUCCESS /\ r.data[1] # run.slotNum
       THEN pc' = "switch" /\ UNCHANGED <<outcome, run>>
       ELSE saveEnter
    /\ UNCHANGED <<allData, files>>
    /\ UNCHANGED sessionVars

\* switchResult = await device.cmd(CMD_SET_ACTIVE_SLOT, [slotNum])
saveSwitch(r) ==
    /\ pc = "switch" /\ run.oper = "save"
    /\ deviceCmd(CMD_SET_ACTIVE_SLOT, <<run.slotNum>>, r)
    /\ IF r.kind = "rejected" THEN handlerReturn("thrown")
       ELSE IF r.status # STATUS_SUCCESS THEN handlerReturn("noswitch")
       ELSE saveEnter
    /\ UNCHANGED <<allData, files>>
    /\ UNCHANGED sessionVars

\* the read command, unit size and unit count of the slot's tag type
readCommand == IF isNtag(run.tagType) THEN CMD_MF0_NTAG_READ_EMU_PAGE_DATA
               ELSE CMD_MF1_READ_EMU_BLOCK_DATA
unitSize == IF isNtag(run.tagType) THEN pageSize ELSE blockSize
totalUnits == IF isNtag(run.tagType) THEN pageCounts(run.tagType)
              ELSE blockCounts(run.tagType)

\* variant: every request asks for a full batch
unitsToReadUnclamped(index) == unitsPerRequest

\* pagesToRead = Math.min(32, totalPages - pageIndex)
unitsToRead(index) == Min(unitsPerRequest, totalUnits - index)

\* variant: a failed chunk is skipped and the loop goes on
saveReadChunkSkipFailed(r) ==
    /\ pc = "read" /\ run.oper = "save"
    /\ deviceCmd(readCommand, <<run.index, unitsToRead(run.index)>>, r)
    /\ IF r.kind = "rejected" THEN handlerReturn("thrown") /\ UNCHANGED allData
       ELSE /\ allData' = IF r.status # STATUS_SUCCESS THEN allData
                          ELSE allData \o r.data
            /\ run' = [run EXCEPT
                         !.index = @ + unitsPerRequest,
                         !.odd = IF odd(r, unitsToRead(run.index) * unitSize)
                                 THEN @ + 1 ELSE @]
            /\ pc' = IF run.index + unitsPerRequest < totalUnits THEN "read" ELSE "save"
            /\ UNCHANGED outcome
    /\ UNCHANGED files
    /\ UNCHANGED sessionVars

\* one pass of the page loop or of the block loop
saveReadChunk(r) ==
    /\ pc = "read" /\ run.oper = "save"
    /\ deviceCmd(readCommand, <<run.index, unitsToRead(run.index)>>, r)
    /\ IF r.kind = "rejected" THEN handlerReturn("thrown") /\ UNCHANGED allData
       ELSE IF r.status # STATUS_SUCCESS
       THEN /\ chunkFailed(run.index, run.index + unitsToRead(run.index) - 1, r.status)
            /\ UNCHANGED allData
       ELSE /\ allData' = allData \o r.data
            /\ run' = [run EXCEPT
                         !.index = @ + unitsPerRequest,
                         !.odd = IF odd(r, unitsToRead(run.index) * unitSize)
                                 THEN @ + 1 ELSE @]
            /\ pc' = IF run.index + unitsPerRequest < totalUnits THEN "read" ELSE "save"
            /\ UNCHANGED outcome
    /\ UNCHANGED files
    /\ UNCHANGED sessionVars

\* EM410X: readResult = await device.cmd(CMD_EM410X_GET_EMU_ID)
saveReadId(r) ==
    /\ pc = "readid" /\ run.oper = "save"
    /\ deviceCmd(CMD_EM410X_GET_EMU_ID, <<>>, r)
    /\ IF r.kind = "rejected" THEN handlerReturn("thrown") /\ UNCHANGED allData
       ELSE IF r.status # STATUS_SUCCESS
       THEN handlerReturn("noid") /\ UNCHANGED allData
       ELSE /\ allData' = sliceTo(r.data, 5)
            /\ pc' = "save"
            /\ UNCHANGED <<outcome, run>>
    /\ UNCHANGED files
    /\ UNCHANGED sessionVars

\* saveSuccess = await API.writeFile(filePath, fileData)
saveWriteFile(res) ==
    /\ pc = "save" /\ run.oper = "save"
    /\ files' = IF res = "saved" THEN Append(files, allData) ELSE files
    /\ handlerReturn(res)
    /\ UNCHANGED <<issued, allData>>
    /\ UNCHANGED sessionVars

\* what the device may answer to the commands of the handler
StatusResponses(data) ==
    {Resolves(STATUS_SUCCESS, data), Resolves(STATUS_PAR_ERR, <<>>), Rejected}

ChunkResponses ==
    LET n == unitsToRead(run.index) * unitSize
        from == run.index * unitSize
    IN {Resolves(STATUS_SUCCESS, tagBytes(from, n))}
       \cup (IF run.odd < MaxFaults
             THEN {Resolves(STATUS_PAR_ERR, <<>>), Rejected,
                   Resolves(STATUS_SUCCESS, tagBytes(from, n - unitSize)),
                   Resolves(STATUS_SUCCESS, tagBytes(from, n + 2))}
             ELSE {})

\* the slots the device may have active
DeviceSlots == {0, 1}

\* the tag types the slot may hold (0: empty)
HfTypes == {0, 1000, 1001, 1101, 1102, 1103, 1107, 1109}
LfTypes == {0, 100, 200}

SaveRuns ==
    {[IdleRun EXCEPT !.oper = "save", !.slotGiven = g, !.slotNum = IF g THEN 1 ELSE 0,
                     !.frequency = f, !.hf = hf, !.lf = lf] :
        g \in BOOLEAN, f \in {"hf", "lf"}, hf \in HfTypes, lf \in LfTypes}

InitSave ==
    /\ driver = "ble"
    /\ wire = <<>>
    /\ input = [cmd |-> 0, status |-> 0, data |-> <<>>, garbage |-> <<>>, flip |-> NoFlip]
    /\ chunks = "none"
    /\ connected = TRUE
    /\ Constructed
    /\ onDataCallback = "parser"
    /\ callers = NoCallers
    /\ dump = <<>>
    /\ reports = <<>>
    /\ transport = NoTransport
    /\ disconnects = NoDisconnects
    /\ pc = "start"
    /\ issued = <<>>
    /\ allData = <<>>
    /\ files = <<>>
    /\ outcome = "running"
    /\ run \in SaveRuns

NextSave ==
    \/ saveStart
    \/ \E a \in DeviceSlots : \E r \in StatusResponses(<<a>>) : saveGetSlot(r)
    \/ \E r \in StatusResponses(slotInfoData(run.hf, run.lf)) : saveSlotInfo(r)
    \/ \E a \in DeviceSlots : \E r \in StatusResponses(<<a>>) : saveSlotCheck(r)
    \/ \E r \in StatusResponses(<<>>) : saveSwitch(r)
    \/ \E r \in ChunkResponses : saveReadChunk(r)
    \/ \E r \in StatusResponses(tagBytes(0, 5)) : saveReadId(r)
    \/ \E res \in {"saved", "notsaved", "thrown"} : saveWriteFile(res)

SpecSave == InitSave /\ [][NextSave]_vars


\* ---- chameleonultra slot loadram|loadflash [slot] <hf|lf> <tag_type> <file>
CMD_SET_SLOT_TAG_TYPE == 1004
CMD_SLOT_DATA_CONFIG_SAVE == 1009
CMD_MF0_NTAG_WRITE_EMU_PAGE_DATA == 4022
CMD_MF1_WRITE_EMU_BLOCK_DATA == 4000
CMD_EM410X_SET_EMU_ID == 5000

\* the bytes of the file that is loaded
fileData == tagBytes(0, run.fileLen)

\* the frequency given must be the one of the tag type given
loadStart ==
    /\ pc = "start" /\ run.oper = "load"
    /\ IF run.frequency = "hf" /\ run.tagTypeValue < 1000 THEN handlerReturn("notHF")
       ELSE IF run.frequency = "lf" /\ run.tagTypeValue >= 1000 THEN handlerReturn("notLF")
       ELSE pc' = "readfile" /\ UNCHANGED <<outcome, run>>
    /\ UNCHANGED <<issued, allData, files>>
    /\ UNCHANGED sessionVars

\* fileData = await API.readFile(filePath)
loadReadFile(res) ==
    /\ pc = "readfile" /\ run.oper = "load"
    /\ IF res = "thrown" THEN handlerReturn("thrown")
       ELSE IF res = "null" THEN handlerReturn("nofile")
       ELSE /\ pc' = IF run.slotGiven THEN "slotcheck" ELSE "getslot"
            /\ UNCHANGED <<outcome, run>>
    /\ UNCHANGED <<issued, allData, files>>
    /\ UNCHANGED sessionVars

\* if (slotNum === null) { currentSlot = await device.cmd(CMD_GET_ACTIVE_SLOT) ...
loadGetSlot(r) ==
    /\ pc = "getslot" /\ run.oper = "load"
    /\ deviceCmd(CMD_GET_ACTIVE_SLOT, <<>>, r)
    /\ IF r.kind = "rejected" THEN handlerReturn("thrown")
       ELSE IF r.status # STATUS_SUCCESS THEN handlerReturn("noslot")
       ELSE /\ pc' = "slotcheck"
            /\ run' = [run EXCEPT !.slotNum = r.data[1]]
            /\ UNCHANGED outcome
    /\ UNCHANGED <<allData, files>>
    /\ UNCHANGED sessionVars

\* currentSlotCheck = await device.cmd(CMD_GET_ACTIVE_SLOT)
loadSlotCheck(r) ==
    /\ pc = "slotcheck" /\ run.oper = "load"
    /\ deviceCmd(CMD_GET_ACTIVE_SLOT, <<>>, r)
    /\ IF r.kind = "rejected" THEN handlerReturn("thrown")
       ELSE /\ pc' = IF r.status = STATUS_SUCCESS /\ r.data[1] # run.slotNum
                     THEN "switch" ELSE "settype"
            /\ UNCHANGED <<outcome, run>>
    /\ UNCHANGED <<allData, files>>
    /\ UNCHANGED sessionVars

\* switchResult = await device.cmd(CMD_SET_ACTIVE_SLOT, [slotNum])
loadSwitch(r) ==
    /\ pc = "switch" /\ run.oper = "load"
    /\ deviceCmd(CMD_SET_ACTIVE_SLOT, <<run.slotNum>>, r)
    /\ IF r.kind = "rejected" THEN handlerReturn("thrown")
       ELSE IF r.status # STATUS_SUCCESS THEN handlerReturn("noswitch")
       ELSE pc' = "settype" /\ UNCHANGED <<outcome, run>>
    /\ UNCHANGED <<allData, files>>
    /\ UNCHANGED sessionVars

\* where the handler goes once the tag type is set
loadDispatch ==
    IF run.frequency = "hf"
    THEN IF isNtag(run.tagTypeValue) \/ isMifareClassic(run.tagTypeValue)
         THEN (IF run.fileLen > 0 THEN "write" ELSE "flash")
         ELSE "flash"
    ELSE IF run.tagTypeValue = 100
         THEN (IF run.fileLen < 5 THEN "short" ELSE "writeid")
         ELSE "unsupported"

\* Step 1: set the tag type of the slot
loadSetType(r) ==
    /\ pc = "settype" /\ run.oper = "load"
    /\ deviceCmd(CMD_SET_SLOT_TAG_TYPE,
                 <<run.slotNum, (run.tagTypeValue \div 256) % 256, run.tagTypeValue % 256>>, r)
    /\ IF r.kind = "rejected" THEN handlerReturn("thrown")
       ELSE IF r.status # STATUS_SUCCESS THEN handlerReturn("notype")
       ELSE IF loadDispatch \in {"short", "unsupported"} THEN handlerReturn(loadDispatch)
       ELSE pc' = loadDispatch /\ UNCHANGED <<outcome, run>>
    /\ UNCHANGED <<allData, files>>
    /\ UNCHANGED sessionVars

writeUnitSize == IF isNtag(run.tagTypeValue) THEN pageSize ELSE blockSize

\* Math.ceil(fileData.length / pageSize)
writeTotalUnits == CeilDiv(run.fileLen, writeUnitSize)

\* pagesThisBatch = Math.min(32, totalPages - pageIndex)
unitsThisBatch(index) == Min(unitsPerRequest, writeTotalUnits - index)

\* the bytes of the batch, each unit copied from the file, the rest zero
batchBytes(index) ==
    LET n == unitsThisBatch(index) * writeUnitSize
        from == index * writeUnitSize
        have == Min(n, run.fileLen - from)
    IN SubSeq(fileData, from + 1, from + have) \o zeros(n - have)

\* cmdData of a write request: the header bytes are stored in a Uint8Array
writeCmdData(index) ==
    IF isNtag(run.tagTypeValue)
    THEN <<index % 256, unitsThisBatch(index) % 256>> \o batchBytes(index)
    ELSE <<index % 256>> \o batchBytes(index)

writeCommand == IF isNtag(run.tagTypeValue) THEN CMD_MF0_NTAG_WRITE_EMU_PAGE_DATA
                ELSE CMD_MF1_WRITE_EMU_BLOCK_DATA

\* variant: a failed write is skipped and the loop goes on
loadWriteChunkSkipFailed(r) ==
    /\ pc = "write" /\ run.oper = "load"
    /\ deviceCmd(writeCommand, writeCmdData(run.index), r)
    /\ IF r.kind = "rejected" THEN handlerReturn("thrown")
       ELSE /\ run' = [run EXCEPT !.index = @ + unitsPerRequest]
            /\ pc' = IF run.index + unitsPerRequest < writeTotalUnits THEN "write" ELSE "flash"
            /\ UNCHANGED outcome
    /\ UNCHANGED <<allData, files>>
    /\ UNCHANGED sessionVars

\* Step 2: one pass of the page loop or of the block loop
loadWriteChunk(r) ==
    /\ pc = "write" /\ run.oper = "load"
    /\ deviceCmd(writeCommand, writeCmdData(run.index), r)
    /\ IF r.kind = "rejected" THEN handlerReturn("thrown")
       ELSE IF r.status # STATUS_SUCCESS
       THEN chunkFailed(run.index, run.index + unitsThisBatch(run.index) - 1, r.status)
       ELSE /\ run' = [run EXCEPT !.index = @ + unitsPerRequest]
            /\ pc' = IF run.index + unitsPerRequest < writeTotalUnits THEN "write" ELSE "flash"
            /\ UNCHANGED outcome
    /\ UNCHANGED <<allData, files>>
    /\ UNCHANGED sessionVars

\* EM410X: writeResult = await device.cmd(CMD_EM410X_SET_EMU_ID, fileData.slice(0, 5))
loadWriteId(r) ==
    /\ pc = "writeid" /\ run.oper = "load"
    /\ deviceCmd(CMD_EM410X_SET_EMU_ID, sliceTo(fileData, 5), r)
    /\ IF r.kind = "rejected" THEN handlerReturn("thrown")
       ELSE IF r.status # STATUS_SUCCESS THEN handlerReturn("noid")
       ELSE pc' = "flash" /\ UNCHANGED <<outcome, run>>
    /\ UNCHANGED <<allData, files>>
    /\ UNCHANGED sessionVars

\* Step 3: save the configuration (loadflash only); a failure status is a
\* warning
loadFlash(r) ==
    /\ pc = "flash" /\ run.oper = "load"
    /\ run.saveToFlash
    /\ deviceCmd(CMD_SLOT_DATA_CONFIG_SAVE, <<>>, r)
    /\ handlerReturn(IF r.kind = "rejected" THEN "thrown" ELSE "loaded")
    /\ UNCHANGED <<allData, files>>
    /\ UNCHANGED sessionVars

\* loadram: nothing is saved to flash
loadRam ==
    /\ pc = "flash" /\ run.oper = "load"
    /\ ~run.saveToFlash
    /\ handlerReturn("loaded")
    /\ UNCHANGED <<issued, allData, files>>
    /\ UNCHANGED sessionVars

\* lengths of the file that is loaded
FileLengths == {0, 4, 130, 540, 1028}

\* tag types given on the command line
LoadTypes == {1001, 1101, 100, 200}

LoadRuns ==
    {[IdleRun EXCEPT !.oper = "load", !.slotGiven = g, !.slotNum = IF g THEN 1 ELSE 0,
                     !.frequency = f, !.tagTypeValue = t, !.fileLen = n,
                     !.saveToFlash = fl] :
        g \in BOOLEAN, f \in {"hf", "lf"}, t \in LoadTypes, n \in FileLengths,
        fl \in BOOLEAN}

InitLoad ==
    /\ driver = "ble"
    /\ wire = <<>>
    /\ input = [cmd |-> 0, status |-> 0, data |-> <<>>, garbage |-> <<>>, flip |-> NoFlip]
    /\ chunks = "none"
    /\ connected = TRUE
    /\ Constructed
    /\ onDataCallback = "parser"
    /\ callers = NoCallers
    /\ dump = <<>>
    /\ reports = <<>>
    /\ transport = NoTransport
    /\ disconnects = NoDisconnects
    /\ pc = "start"
    /\ issued = <<>>
    /\ allData = <<>>
    /\ files = <<>>
    /\ outcome = "running"
    /\ run \in LoadRuns

NextLoad ==
    \/ loadStart
    \/ \E res \in {"data", "null", "thrown"} : loadReadFile(res)
    \/ \E a \in DeviceSlots : \E r \in StatusResponses(<<a>>) : loadGetSlot(r)
    \/ \E a \in DeviceSlots : \E r \in StatusResponses(<<a>>) : loadSlotCheck(r)
    \/ \E r \in StatusResponses(<<>>) : loadSwitch(r)
    \/ \E r \in StatusResponses(<<>>) : loadSetType(r)
    \/ \E r \in StatusResponses(<<>>) : loadWriteChunk(r)
    \/ \E r \in StatusResponses(<<>>) : loadWriteId(r)
    \/ \E r \in StatusResponses(<<>>) : loadFlash(r)
    \/ loadRam

\* ---- the three bulk handlers together
InitHandlers == InitScan \/ InitSave \/ InitLoad

NextHandlers == NextScan \/ NextSave \/ NextLoad

SpecHandlers == InitHandlers /\ [][NextHandlers]_vars

\* ------------------------------------------------------ connection paths
\* How a session comes to be wired to its transport: device.connect with no
\* transport, device.connect with a connected transport in options.transport,
\* and the device-selection path of the BLE connect button.

\* BLETransport.onData / SerialTransport.onData: the transport keeps one
\* callback, the last one registered
onData(callback) == onDataCallback' = callback

\* ChameleonUltraBLE.connect / ChameleonUltraSerial.connect, after the
\* transport is there: this.transport.onData(frame parser)
connect == onData("parser")

\* what a connection path leaves alone
connectionFrame ==
    UNCHANGED <<driver, wire, buffer, readBuffer, responseBuffer, responseCallbacks,
                timers, promise, sent, written, answered, log, input, chunks,
                pc, issued, allData, files, outcome, callers, dump, reports,
                transport, disconnects>>

\* DeviceRegistry.connectDevice: device.connect(type) creates and connects
\* its own transport
connectDevice ==
    /\ run.oper = "none"
    /\ connected' = TRUE
    /\ connect
    /\ run' = [IdleRun EXCEPT !.oper = "connectDevice"]
    /\ connectionFrame

\* connect buttons, one extension registered (and the Serial button's
\* selection branch): the handler connects the transport and hands it to
\* device.connect(type, { transport })
connectButton ==
    /\ run.oper = "none"
    /\ connected' = TRUE
    /\ connect
    /\ run' = [IdleRun EXCEPT !.oper = "connectButton"]
    /\ connectionFrame

\* BLE connect button, several extensions registered, one picked in the
\* selection modal: the handler sets device.transport itself, registers the
\* frame parser, and then registers a callback that pushes the chunk to
\* device.responseQueue
showDeviceSelectionModal ==
    /\ run.oper = "none"
    /\ driver = "ble"
    /\ connected' = TRUE
    /\ onData("responseQueue")
    /\ run' = [IdleRun EXCEPT !.oper = "showDeviceSelectionModal"]
    /\ connectionFrame

\* the transport's listener (BLETransport's characteristicvaluechanged
\* listener, SerialTransport.startReadLoop) gets the next k bytes: the read
\* loop appends them to readBuffer, and the chunk goes to the registered
\* callback; only the frame parser buffers and decodes it
transportListener(k) ==
    IF onDataCallback = "parser"
    THEN OnData(k) /\ UNCHANGED chunks
    ELSE /\ connected
         /\ k \in 1..Len(wire)
         /\ wire' = SubSeq(wire, k + 1, Len(wire))
         /\ readBuffer' = IF driver = "serial"
                          THEN appendChunk(readBuffer, SubSeq(wire, 1, k))
                          ELSE readBuffer
         /\ UNCHANGED <<driver, buffer, responseBuffer, responseCallbacks, timers,
                        promise, sent, written, answered, log, input, chunks,
                        connected, handlerVars>>

\* a caller sends command c on the established session
sessionSend(c) == run.oper # "none" /\ SendCommand(c)

\* the extension drivers; the legacy driver wires its own characteristic
ExtensionDrivers == {"ble", "serial"}

InitConnect ==
    /\ driver \in ExtensionDrivers
    /\ wire = <<>>
    /\ input = [cmd |-> 0, status |-> 0, data |-> <<>>, garbage |-> <<>>, flip |-> NoFlip]
    /\ chunks = "none"
    /\ connected = FALSE
    /\ Constructed
    /\ onDataCallback = "none"
    /\ callers = NoCallers
    /\ dump = <<>>
    /\ reports = <<>>
    /\ transport = NoTransport
    /\ disconnects = NoDisconnects
    /\ pc = "idle"
    /\ issued = <<>>
    /\ allData = <<>>
    /\ files = <<>>
    /\ outcome = "none"
    /\ run = IdleRun

NextConnect ==
    \/ connectDevice
    \/ connectButton
    \/ showDeviceSelectionModal
    \/ \E c \in CmdIds : sessionSend(c)
    \/ \E i \in 1..Len(written), s \in ReplyStatus : DeviceAnswer(i, s)
    \/ \E k \in ChunkSizes : transportListener(k)
    \/ \E n \in Requests : Timeout(n)

SpecConnect == InitConnect /\ [][NextConnect]_vars



\* --------------------------------------------------- callers of a session
\* The status bar and the shell use one session side by side: updateStatus
\* is started by the 5 s interval and by the device events without waiting
\* for a run still in progress, and the shell's commands run beside both.

\* what a caller's step leaves alone besides the channel
callerFrame ==
    UNCHANGED <<onDataCallback, pc, issued, allData, files, outcome, run, dump, reports,
                transport, disconnects>>

\* the caller sends command c and awaits the promise of that request
awaitCmd(who, c, at) ==
    /\ cmd(c)
    /\ callers' = [callers EXCEPT ![who] = [pc |-> at, req |-> Len(sent) + 1]]
    /\ callerFrame

\* the caller's handler ends
callerDone(who) ==
    /\ callers' = [callers EXCEPT ![who] = [pc |-> "done", req |-> 0]]
    /\ UNCHANGED channelVars
    /\ callerFrame

\* updateStatus(includeBattery), up to its first await: the battery request
\* if asked for, else the active-slot request
updateStatus(who, includeBattery) ==
    /\ callers[who].pc \in {"idle", "done"}
    /\ IF includeBattery
       THEN awaitCmd(who, CMD_GET_BATTERY_INFO, "battery")
       ELSE awaitCmd(who, CMD_GET_ACTIVE_SLOT, "slot")

\* updateStatus goes on after an await: a rejection goes to the catch block;
\* after the battery answer the active slot is asked for, after a successful
\* active-slot answer the slot info
updateStatusResume(who) ==
    LET p == promise[callers[who].req] IN
    /\ callers[who].pc \in {"battery", "slot", "slotinfo"}
    /\ p.state # "pending"
    /\ CASE callers[who].pc = "battery" /\ p.state = "resolved" ->
                awaitCmd(who, CMD_GET_ACTIVE_SLOT, "slot")
         [] callers[who].pc = "slot" /\ p.state = "resolved"
                                     /\ p.value.status = STATUS_SUCCESS ->
                awaitCmd(who, CMD_GET_SLOT_INFO, "slotinfo")
         [] OTHER -> callerDone(who)

\* setInterval(() => { ... updateStatus(includeBattery) }, 5000): the battery
\* is included every twelfth tick
pollTick(includeBattery) == updateStatus("poll", includeBattery)

\* API.on('onDeviceConnected' | 'onDeviceDisconnected' | 'onSlotChanged',
\* () => updateStatus())
eventHook == updateStatus("event", TRUE)

\* shell: `chameleonultra battery` (CMD_GET_BATTERY_INFO) and
\* `chameleonultra slot info` (CMD_GET_ACTIVE_SLOT), up to the await
shellCommand(c) ==
    /\ callers["shell"].pc \in {"idle", "done"}
    /\ awaitCmd("shell", c, "shell")

\* the shell command goes on after its await and ends
shellResume ==
    /\ callers["shell"].pc = "shell"
    /\ promise[callers["shell"].req].state # "pending"
    /\ callerDone("shell")

\* the command ids the shell's battery and slot info commands send
ShellCmds == {CMD_GET_BATTERY_INFO, CMD_GET_ACTIVE_SLOT}

InitCallers ==
    /\ driver \in ExtensionDrivers
    /\ wire = <<>>
    /\ input = [cmd |-> 0, status |-> 0, data |-> <<>>, garbage |-> <<>>, flip |-> NoFlip]
    /\ chunks = "none"
    /\ connected = TRUE
    /\ Constructed
    /\ Wired

NextCallers ==
    \/ \E b \in BOOLEAN : pollTick(b)
    \/ eventHook
    \/ \E who \in {"poll", "event"} : updateStatusResume(who)
    \/ \E c \in ShellCmds : shellCommand(c)
    \/ shellResume
    \/ \E i \in 1..Len(written), s \in ReplyStatus : DeviceAnswer(i, s)
    \/ \E k \in ChunkSizes : Deliver(k)
    \/ \E n \in Requests : Timeout(n)

SpecCallers == InitCallers /\ [][NextCallers]_vars


\* ------------------------------------------------------------ encode runs
\* an encode run draws a command id, a status and a payload and has the
\* driver build the frame and hand it to the transport

\* command ids and status values over the 16-bit range
EncodeWords == {0, 1, 255, 256, CMD_GET_BATTERY_INFO, 4607, 65280, 65535}

\* payload lengths: none, short, and on both sides of one length byte
EncodeLengths == {0, 1, 2, 255, 256, 257, 600}

\* payload contents: constant bytes and a ramp over all byte values
EncodeFills == {"zero", "ff", "ramp"}

fill(kind, n) ==
    [i \in 1..n |-> CASE kind = "zero" -> 0
                      [] kind = "ff" -> 255
                      [] kind = "ramp" -> (i * 7) % 256]

\* the longest payloads: the protocol's 4096 and the length field's 65535
LongLengths == {4096, 65535}

EncodeInputs ==
    {[cmd |-> c, status |-> s, data |-> fill(k, n), garbage |-> <<>>, flip |-> NoFlip] :
        c \in EncodeWords, s \in EncodeWords, k \in EncodeFills, n \in EncodeLengths}
    \cup
    {[cmd |-> c, status |-> c, data |-> fill(k, n), garbage |-> <<>>, flip |-> NoFlip] :
        c \in {0, 65535}, k \in {"ff", "ramp"}, n \in LongLengths}

InitEncode ==
    /\ driver \in ExtensionDrivers
    /\ input \in EncodeInputs
    /\ wire = <<>>
    /\ chunks = "none"
    /\ connected = TRUE
    /\ Constructed
    /\ Wired

\* frame = this.makeDataFrame(cmd, data, status); transport.send(frame)
Encode ==
    /\ written = <<>>
    /\ written' = <<makeDataFrame(input.cmd, input.data, input.status)>>
    /\ UNCHANGED <<driver, wire, buffer, readBuffer, responseBuffer, responseCallbacks,
                   timers, promise, sent, answered, log, input, chunks, connected>>
    /\ UNCHANGED handlerVars

NextEncode == Encode

SpecEncode == InitEncode /\ [][NextEncode]_vars


\* ------------------------------------------------------ long-frame runs
\* a long-frame run feeds the decoder one well-formed frame whose payload is
\* at, or one byte over, the protocol's payload limit

\* this.MAX_DATA_LENGTH = 4096
MAX_DATA_LENGTH == 4096

LongFrameInputs ==
    {[cmd |-> CMD_GET_BATTERY_INFO, status |-> STATUS_SUCCESS, data |-> fill("ramp", n),
      garbage |-> <<>>, flip |-> NoFlip] : n \in {MAX_DATA_LENGTH, MAX_DATA_LENGTH + 1}}

InitLongFrame ==
    /\ driver \in Drivers
    /\ input \in LongFrameInputs
    /\ wire = Stream(input)
    /\ chunks = "none"
    /\ connected = TRUE
    /\ buffer = <<>>
    /\ readBuffer = <<>>
    /\ responseBuffer = <<>>
    /\ log = <<>>
    \* request 1, sendCommand(input.cmd), is outstanding when the stream arrives
    /\ sent = <<[cmd |-> input.cmd, data |-> <<>>, afterTimeout |-> FALSE, alone |-> TRUE,
               over |-> {}, up |-> TRUE]>>
    /\ written = <<makeDataFrame(input.cmd, <<>>, 0)>>
    /\ answered = {1}
    /\ responseCallbacks = Register(<<>>, input.cmd, 1)
    /\ timers = [n \in Requests |-> IF n = 1 THEN "armed" ELSE "none"]
    /\ promise = [n \in Requests |-> Pending]
    /\ Wired

\* the link delivers the frame in notifications of 128 bytes, or the rest
\* of it at once
LongChunkSizes == {128, Len(wire)}

NextLongFrame == \E k \in LongChunkSizes : CodecOnData(k)

SpecLongFrame == InitLongFrame /\ [][NextLongFrame]_vars


\* ------------------------------------------------------ RFID dump analysis
\* RFID.analyze and the decoders it calls, on a byte buffer. JavaScript
\* indices are 0-based: at(d, i) is d[i], slice(d, a, b) is d.slice(a, b).

at(d, i) == d[i + 1]

slice(d, a, b) == SubSeq(d, a + 1, Min(b, Len(d)))

\* this.tagSignatures, in the order of the object's keys
tagSignatures ==
    <<[key |-> "ntag210", size |-> 80, name |-> "NTAG 210"],
      [key |-> "ntag212", size |-> 164, name |-> "NTAG 212"],
      [key |-> "ntag213", size |-> 180, name |-> "NTAG 213"],
      [key |-> "ntag215", size |-> 540, name |-> "NTAG 215"],
      [key |-> "ntag216", size |-> 924, name |-> "NTAG 216"],
      [key |-> "mifareMini", size |-> 320, name |-> "Mifare Mini"],
      [key |-> "mifareClassic1K", size |-> 1024, name |-> "Mifare Classic 1K"],
      [key |-> "mifareClassic2K", size |-> 2048, name |-> "Mifare Classic 2K"],
      [key |-> "mifareClassic4K", size |-> 4096, name |-> "Mifare Classic 4K"],
      [key |-> "mifareUltralight", size |-> 64, name |-> "Mifare Ultralight"],
      [key |-> "mifareUltralightC", size |-> 192, name |-> "Mifare Ultralight C"],
      [key |-> "em410x", size |-> 5, name |-> "EM410X"],
      [key |-> "t5577", size |-> 264, name |-> "T5577"],
      [key |-> "hidProx", size |-> 96, name |-> "HID Prox"]>>

\* key.startsWith('ntag') || key.startsWith('mifare')
hfKeys == {"ntag210", "ntag212", "ntag213", "ntag215", "ntag216", "mifareMini",
           "mifareClassic1K", "mifareClassic2K", "mifareClassic4K",
           "mifareUltralight", "mifareUltralightC"}

\* key.startsWith('em') || key.startsWith('t55') || key.startsWith('hid')
lfKeys == {"em410x", "t5577", "hidProx"}

\* tagType.startsWith('NTAG'), tagType.includes('Mifare Classic')
ntagNames == {"NTAG 210", "NTAG 212", "NTAG 213", "NTAG 215", "NTAG 216"}
mifareClassicNames == {"Mifare Classic 1K", "Mifare Classic 2K", "Mifare Classic 4K"}

\* result.details: the properties that were assigned (keys) and their
\* values; a property that was not assigned keeps the value it has here
NoNdef ==
    [messageBegin |-> FALSE, messageEnd |-> FALSE, shortRecord |-> FALSE,
     typeNameFormat |-> 0, typeLength |-> 0, payloadLength |-> 0,
     keys |-> {}, type |-> <<>>, payload |-> <<>>, payloadText |-> <<>>]

NoDetails ==
    [keys |-> {}, pageSize |-> 0, totalPages |-> 0, uid |-> <<>>,
     capabilityContainer |-> <<>>, lockBytes |-> <<>>, isLocked |-> FALSE,
     blockSize |-> 0, totalBlocks |-> 0, sectors |-> 0, manufacturer |-> 0,
     sectorTrailers |-> <<>>, hasNDEF |-> FALSE, ndefOffset |-> 0, ndefLength |-> 0,
     ndef |-> NoNdef, extractedText |-> <<>>, warning |-> FALSE,
     version |-> 0, customerId |-> 0, customerIdHex |-> <<>>, blocks |-> <<>>]

\* return { error: 'No data provided or file is empty' }
errorResult ==
    [error |-> TRUE, thrown |-> FALSE, fileSize |-> 0, fileSizeBits |-> 0,
     frequency |-> "null", tagType |-> "null", confidence |-> 0,
     details |-> NoDetails, data |-> <<>>]

\* const result = { fileSize, fileSizeBits, frequency: null, tagType: null,
\*                  confidence: 0, details: {}, data }
newResult(data) ==
    [error |-> FALSE, thrown |-> FALSE, fileSize |-> Len(data),
     fileSizeBits |-> Len(data) * 8, frequency |-> "null", tagType |-> "null",
     confidence |-> 0, details |-> NoDetails, data |-> data]

\* a method call on undefined: the decoder throws
throws(result) == [result EXCEPT !.thrown = TRUE]

\* result.details.<key> = value is recorded in keys
assign(result, ks) == [result EXCEPT !.details.keys = @ \cup ks]

\* variant: the size === 5 heuristic is tried before the table
detectTagTypeHeuristicFirst(data, result) ==
    LET size == Len(data)
        hits == {i \in 1..Len(tagSignatures) : tagSignatures[i].size = size}
    IN IF size = 5
       THEN [result EXCEPT !.tagType = "EM410X", !.frequency = "LF", !.confidence = 95]
       ELSE IF hits # {}
       THEN LET sig == tagSignatures[CHOOSE i \in hits : \A j \in hits : i <= j]
            IN [result EXCEPT !.tagType = sig.name, !.confidence = 90,
                              !.frequency = IF sig.key \in hfKeys THEN "HF"
                                            ELSE IF sig.key \in lfKeys THEN "LF" ELSE @]
       ELSE IF size >= 64 /\ size <= 1024
       THEN [result EXCEPT !.frequency = "HF", !.tagType = "Unknown HF/NFC", !.confidence = 50]
       ELSE IF size < 64
       THEN [result EXCEPT !.frequency = "LF", !.tagType = "Unknown LF", !.confidence = 50]
       ELSE [result EXCEPT !.tagType = "Unknown", !.confidence = 0]

\* detectTagType(data, result): the first table entry of the buffer's size,
\* else the heuristics by size
detectTagType(data, result) ==
    LET size == Len(data)
        hits == {i \in 1..Len(tagSignatures) : tagSignatures[i].size = size}
    IN IF hits # {}
       THEN LET sig == tagSignatures[CHOOSE i \in hits : \A j \in hits : i <= j]
            IN [result EXCEPT !.tagType = sig.name, !.confidence = 90,
                              !.frequency = IF sig.key \in hfKeys THEN "HF"
                                            ELSE IF sig.key \in lfKeys THEN "LF" ELSE @]
       ELSE IF size = 5
       THEN [result EXCEPT !.tagType = "EM410X", !.frequency = "LF", !.confidence = 95]
       ELSE IF size >= 64 /\ size <= 1024
       THEN [result EXCEPT !.frequency = "HF", !.tagType = "Unknown HF/NFC", !.confidence = 50]
       ELSE IF size < 64
       THEN [result EXCEPT !.frequency = "LF", !.tagType = "Unknown LF", !.confidence = 50]
       ELSE [result EXCEPT !.tagType = "Unknown", !.confidence = 0]

\* extractUID(data)
extractUID(data) ==
    IF Len(data) < 8 THEN <<>>
    ELSE IF at(data, 0) = 136 THEN slice(data, 0, 8)
    ELSE slice(data, 0, 4)

\* analyzeNTAG(data, result): capability container (cc[0].toString, cc[1] >> 4,
\* cc[2] * 8, cc[3]) and lock bytes
analyzeNTAG(data, result) ==
    LET r1 == IF Len(data) >= 16
              THEN LET cc == slice(data, 12, 16)
                   IN IF Len(cc) < 4 THEN throws(result)
                      ELSE assign([result EXCEPT !.details.capabilityContainer = cc],
                                {"capabilityContainer"})
              ELSE result
    IN IF Len(data) >= 12
       THEN LET lockBytes == slice(data, 10, 12)
            IN assign([r1 EXCEPT !.details.lockBytes = lockBytes,
                               !.details.isLocked = lockBytes[1] # 0 \/ lockBytes[2] # 0],
                    {"lockBytes", "isLocked"})
       ELSE r1

\* analyzeMifareClassic(data, result)
analyzeMifareClassic(data, result) ==
    LET totalBlocks16 == Len(data) \div 16
        sectors == totalBlocks16 \div 4
        r1 == assign([result EXCEPT !.details.blockSize = 16,
                                  !.details.totalBlocks = totalBlocks16,
                                  !.details.sectors = sectors],
                   {"blockSize", "totalBlocks", "sectors"})
        r2 == IF Len(data) >= 16
              THEN assign([r1 EXCEPT !.details.uid = slice(data, 0, 4),
                                   !.details.manufacturer = at(data, 0)],
                        {"uid", "uidHex", "manufacturer"})
              ELSE r1
        trailers == [s \in 1..sectors |->
                        LET trailerOffset == ((s - 1) * 4 + 3) * 16
                            trailer == slice(data, trailerOffset, trailerOffset + 16)
                        IN [sector |-> s - 1, keyA |-> slice(trailer, 0, 6),
                            accessBits |-> slice(trailer, 6, 10),
                            keyB |-> slice(trailer, 10, 16)]]
    IN assign([r2 EXCEPT !.details.sectorTrailers = trailers], {"sectorTrailers"})

\* new TextDecoder('utf-8').decode(payload): ASCII bytes decode to
\* themselves; any other byte is shown as U+FFFD (multi-byte sequences are
\* not decoded here)
utf8Decode(bytes) == [i \in 1..Len(bytes) |-> IF bytes[i] < 128 THEN bytes[i] ELSE 65533]

\* String.fromCharCode(...type)
fromCharCode(bytes) == bytes

\* parseNDEF(ndefData, result)
parseNDEF(ndefData, result) ==
    IF Len(ndefData) < 3 THEN result
    ELSE
    LET header == at(ndefData, 0)
        typeLength == at(ndefData, 1)
        payloadLength == at(ndefData, 2)
        payloadOffset == 3 + typeLength
        hasType == typeLength > 0 /\ Len(ndefData) >= 3 + typeLength
        hasPayload == payloadLength > 0 /\ Len(ndefData) >= payloadOffset + payloadLength
        payload == slice(ndefData, payloadOffset, payloadOffset + payloadLength)
        ndef == [messageBegin |-> (header \div 128) % 2 = 1,
                 messageEnd |-> (header \div 64) % 2 = 1,
                 shortRecord |-> (header \div 16) % 2 = 1,
                 typeNameFormat |-> header % 8,
                 typeLength |-> typeLength,
                 payloadLength |-> payloadLength,
                 keys |-> (IF hasType THEN {"type"} ELSE {})
                          \cup (IF hasPayload THEN {"payload", "payloadHex", "payloadText"}
                                ELSE {}),
                 type |-> IF hasType THEN fromCharCode(slice(ndefData, 3, 3 + typeLength))
                          ELSE <<>>,
                 payload |-> IF hasPayload THEN payload ELSE <<>>,
                 payloadText |-> IF hasPayload THEN utf8Decode(payload) ELSE <<>>]
    IN assign([result EXCEPT !.details.ndef = ndef], {"ndef"})

\* variant: the NDEF record is read to the end of the buffer, whatever the
\* TLV length says
checkNDEFToEnd(data, result) ==
    LET found == {i \in 16..(Min(Len(data) - 2, 100) - 1) : at(data, i) = 3}
    IN IF found # {}
       THEN LET ndefOffset == CHOOSE i \in found : \A j \in found : i <= j
                ndefLength == at(data, ndefOffset + 1)
                r1 == assign([result EXCEPT !.details.hasNDEF = TRUE,
                                          !.details.ndefOffset = ndefOffset,
                                          !.details.ndefLength = ndefLength],
                           {"hasNDEF", "ndefOffset", "ndefLength"})
            IN parseNDEF(slice(data, ndefOffset + 2, Len(data)), r1)
       ELSE assign([result EXCEPT !.details.hasNDEF = FALSE], {"hasNDEF"})

\* checkNDEF(data, result): the first 0x03 from byte 16 on, before
\* min(data.length - 2, 100)
checkNDEF(data, result) ==
    LET found == {i \in 16..(Min(Len(data) - 2, 100) - 1) : at(data, i) = 3}
    IN IF found # {}
       THEN LET ndefOffset == CHOOSE i \in found : \A j \in found : i <= j
                ndefLength == at(data, ndefOffset + 1)
                r1 == assign([result EXCEPT !.details.hasNDEF = TRUE,
                                          !.details.ndefOffset = ndefOffset,
                                          !.details.ndefLength = ndefLength],
                           {"hasNDEF", "ndefOffset", "ndefLength"})
            IN IF ndefOffset + 2 + ndefLength <= Len(data)
               THEN parseNDEF(slice(data, ndefOffset + 2, ndefOffset + 2 + ndefLength), r1)
               ELSE r1
       ELSE assign([result EXCEPT !.details.hasNDEF = FALSE], {"hasNDEF"})

\* byte >= 0x20 && byte <= 0x7E
printable(byte) == byte >= 32 /\ byte <= 126

\* extractText(data, result): the runs of at least 4 printable bytes, in
\* buffer order
extractText(data, result) ==
    LET n == Len(data)
        starts == {s \in 1..n : printable(data[s]) /\ (s = 1 \/ ~printable(data[s - 1]))}
        stops == {e \in 1..n : e = n \/ ~printable(data[e + 1])}
        endOf(s) == CHOOSE e \in stops : e >= s /\ \A x \in stops : x >= s => e <= x
        long == {s \in starts : endOf(s) - s + 1 >= 4}
        rank(s) == Cardinality({t \in long : t <= s})
        texts == [k \in 1..Cardinality(long) |->
                     LET s == CHOOSE t \in long : rank(t) = k
                     IN SubSeq(data, s, endOf(s))]
    IN IF long # {}
       THEN assign([result EXCEPT !.details.extractedText = texts], {"extractedText"})
       ELSE result

\* analyzeHF(data, result)
analyzeHF(data, result) ==
    LET r1 == assign([result EXCEPT !.details.pageSize = 4,
                                  !.details.totalPages = Len(data) \div 4,
                                  !.details.uid = extractUID(data)],
                   {"pageSize", "totalPages", "uid", "uidHex"})
        r2 == IF r1.tagType \in ntagNames THEN analyzeNTAG(data, r1)
              ELSE IF r1.tagType \in mifareClassicNames THEN analyzeMifareClassic(data, r1)
              ELSE r1
    IN IF r2.thrown THEN r2 ELSE extractText(data, checkNDEF(data, r2))

\* data[1] << 24 | data[2] << 16 | data[3] << 8 | data[4]: a signed 32-bit
\* integer
int32(b1, b2, b3, b4) ==
    (IF b1 >= 128 THEN b1 - 256 ELSE b1) * 16777216 + b2 * 65536 + b3 * 256 + b4

\* the characters Number.prototype.toString(16) writes for the digits 0..15
hexChars == <<"0", "1", "2", "3", "4", "5", "6", "7", "8", "9",
              "a", "b", "c", "d", "e", "f">>

\* the hex digits of |n|, most significant first, for n >= 0 (empty for 0)
RECURSIVE digitsOf(_)
digitsOf(n) ==
    IF n = 0 THEN <<>> ELSE Append(digitsOf(n \div 16), hexChars[(n % 16) + 1])

\* the hex digits of |n| for n <= 0, computed without negating n
RECURSIVE digitsOfNegative(_)
digitsOfNegative(n) ==
    IF n = 0 THEN <<>>
    ELSE LET low == (16 - (n % 16)) % 16
         IN Append(digitsOfNegative((n + low) \div 16), hexChars[low + 1])

\* n.toString(16): a minus sign and the magnitude for a negative number
toString16(n) ==
    IF n = 0 THEN <<"0">>
    ELSE IF n > 0 THEN digitsOf(n)
    ELSE <<"-">> \o digitsOfNegative(n)

\* s.padStart(8, '0')
padStart8(s) ==
    IF Len(s) >= 8 THEN s ELSE [i \in 1..(8 - Len(s)) |-> "0"] \o s

\* s.toUpperCase()
toUpperCase(s) ==
    [i \in 1..Len(s) |->
        CASE s[i] = "a" -> "A" [] s[i] = "b" -> "B" [] s[i] = "c" -> "C"
          [] s[i] = "d" -> "D" [] s[i] = "e" -> "E" [] s[i] = "f" -> "F"
          [] OTHER -> s[i]]

\* result.details.customerId.toString(16).padStart(8, '0').toUpperCase()
customerIdHex(b1, b2, b3, b4) ==
    toUpperCase(padStart8(toString16(int32(b1, b2, b3, b4))))

\* analyzeEM410X(data, result)
analyzeEM410X(data, result) ==
    IF Len(data) # 5
    THEN assign([result EXCEPT !.details.warning = TRUE], {"warning"})
    ELSE assign([result EXCEPT
                  !.details.version = at(data, 0),
                  !.details.customerId = int32(at(data, 1), at(data, 2),
                                               at(data, 3), at(data, 4)),
                  !.details.customerIdHex = customerIdHex(at(data, 1), at(data, 2),
                                                          at(data, 3), at(data, 4))],
              {"idHex", "idDecimal", "version", "customerId", "customerIdHex"})

\* analyzeT5577(data, result): blocks of 33 bytes, at most 8
analyzeT5577(data, result) ==
    LET count == Min(8, CeilDiv(Len(data), 33))
        blocks == [i \in 1..count |->
                      [block |-> i - 1,
                       bytes |-> slice(data, (i - 1) * 33, Min(i * 33, Len(data)))]]
    IN assign([result EXCEPT !.details.blockSize = 33, !.details.totalBlocks = 8,
                           !.details.blocks = blocks],
            {"blockSize", "totalBlocks", "blocks"})

\* analyzeLF(data, result)
analyzeLF(data, result) ==
    IF result.tagType = "EM410X" \/ Len(data) = 5 THEN analyzeEM410X(data, result)
    ELSE IF result.tagType = "T5577" THEN analyzeT5577(data, result)
    ELSE result

\* variant: analyze counts its calls in the report
analyzeCounting(data, calls) ==
    IF Len(data) = 0 THEN errorResult
    ELSE LET result == detectTagType(data, newResult(data))
         IN [(IF result.frequency = "HF" THEN analyzeHF(data, result)
              ELSE IF result.frequency = "LF" THEN analyzeLF(data, result)
              ELSE result) EXCEPT !.fileSizeBits = @ + calls]

\* variant: an unrecognized layout is an error
analyzeStrict(data, calls) ==
    IF Len(data) = 0 THEN errorResult
    ELSE LET result == detectTagType(data, newResult(data))
         IN IF result.frequency = "HF" THEN analyzeHF(data, result)
            ELSE IF result.frequency = "LF" THEN analyzeLF(data, result)
            ELSE throws(result)

\* analyze(data) on a byte buffer; calls is the number of earlier calls on
\* this RFID object, which the code keeps nowhere
analyze(data, calls) ==
    IF Len(data) = 0 THEN errorResult
    ELSE LET result == detectTagType(data, newResult(data))
         IN IF result.frequency = "HF" THEN analyzeHF(data, result)
            ELSE IF result.frequency = "LF" THEN analyzeLF(data, result)
            ELSE result

\* ---- analysis runs: a drawn buffer is analysed, more than once
MaxAnalyses == 2

\* buffer lengths: empty, around the EM410X size, around the HF range
\* 64..1024, every table size, and beyond the table
AnalyzeLengths ==
    {0, 1, 4, 5, 6, 8, 16, 30, 63, 64, 65, 80, 96, 100, 164, 180, 192, 264, 320,
     540, 924, 1000, 1023, 1024, 1025, 2048, 4096, 4097}

\* buffer contents: constant bytes, a ramp over all byte values, letters
AnalyzeFills == {"zero", "ff", "ramp", "text"}

content(kind, n) ==
    IF kind = "text" THEN [i \in 1..n |-> 65 + (i % 26)] ELSE fill(kind, n)

\* d with bytes written from 0-based offset off on
put(d, off, bytes) ==
    [i \in 1..Len(d) |-> IF i - 1 >= off /\ i - 1 < off + Len(bytes)
                         THEN bytes[i - off] ELSE d[i]]

\* an NDEF message TLV: type 0x03, a length byte, and a record with the
\* given header byte, type length 1, payload length 3, type 'T', payload "hi!"
ndefTlv(length, header) == <<3, length, header, 1, 3, 84, 104, 105, 33>>

\* header bytes with TNF = 1: MB|ME|SR set, no flag set, SR set
NdefHeaders == {209, 1, 17}

\* TLV length bytes: the record's 7 bytes, fewer, more
NdefLengths == {3, 5, 7, 9}

\* where the TLV is put: at offset 20, and at 17 (inside offsets 16..19)
NdefOffsets == {20, 17}

AnalyzeBuffers ==
    {content(k, n) : k \in AnalyzeFills, n \in AnalyzeLengths}
    \cup {put(content(k, n), o, ndefTlv(l, h)) :
             k \in {"zero", "ff", "text"}, n \in {64, 100, 540, 1024, 2048},
             o \in NdefOffsets, l \in NdefLengths, h \in NdefHeaders}
    \cup {put(content("zero", n), 0, <<136>>) : n \in {8, 64, 540}}
    \cup {<<1, 127, 255, 255, 255>>, <<2, 128, 0, 0, 0>>, <<3, 0, 0, 0, 1>>,
          <<4, 18, 52, 171, 205>>}

InitAnalyze ==
    /\ driver = "ble"
    /\ \E b \in AnalyzeBuffers :
          /\ input = [cmd |-> 0, status |-> 0, data |-> b, garbage |-> <<>>, flip |-> NoFlip]
          /\ dump = b
    /\ reports = <<>>
    /\ transport = NoTransport
    /\ disconnects = NoDisconnects
    /\ wire = <<>>
    /\ chunks = "none"
    /\ connected = FALSE
    /\ Constructed
    /\ onDataCallback = "none"
    /\ callers = NoCallers
    /\ pc = "idle"
    /\ issued = <<>>
    /\ allData = <<>>
    /\ files = <<>>
    /\ outcome = "none"
    /\ run = NoRun

\* report = await rfid.analyze(dump): no decoder assigns to an element of
\* the buffer
Analyze ==
    /\ Len(reports) < MaxAnalyses
    /\ reports' = Append(reports, analyze(dump, Len(reports)))
    /\ dump' = dump
    /\ UNCHANGED <<channelVars, onDataCallback, callers, pc, issued, allData, files,
                   outcome, run, transport, disconnects>>

NextAnalyze == Analyze

SpecAnalyze == InitAnalyze /\ [][NextAnalyze]_vars

\* ------------------------------------------------ transports: disconnect
\* a disconnect call runs up to its next await in one step; calls made while
\* another call is suspended interleave with it

MaxDisconnects == 3

\* BLETransport.connect / SerialTransport.connect returned and Device.connect
\* stored the transport
connectedTransport(kind) ==
    [NoTransport EXCEPT
        !.kind = kind, !.held = TRUE,
        !.device = (kind = "ble"), !.server = (kind = "ble"),
        !.service = (kind = "ble"), !.txCharacteristic = (kind = "ble"),
        !.rxCharacteristic = (kind = "ble"),
        !.port = (kind = "serial"), !.reader = (kind = "serial"),
        !.writer = (kind = "serial"), !.reading = (kind = "serial")]

\* this.device = null; this.service = null; this.txCharacteristic = null;
\* this.rxCharacteristic = null
bleCleared(t) ==
    [t EXCEPT !.device = FALSE, !.service = FALSE, !.txCharacteristic = FALSE,
              !.rxCharacteristic = FALSE]

\* BLETransport.disconnect up to its await
bleDisconnect(t) ==
    IF t.server
    THEN [t |-> t, ops |-> <<"server.disconnect">>, pc |-> "bleAwait"]
    ELSE [t |-> bleCleared(t), ops |-> <<>>, pc |-> "done"]

\* BLETransport.disconnect after `await this.server.disconnect()`
bleDisconnected(t) ==
    [t |-> bleCleared([t EXCEPT !.server = FALSE]), ops |-> <<>>, pc |-> "done"]

\* SerialTransport.disconnect from `if (this.writer)` up to the await of
\* port.close()
serialRelease(t, ops) ==
    LET t1 == [t EXCEPT !.writer = FALSE]
        ops1 == IF t.writer THEN Append(ops, "writer.releaseLock") ELSE ops
    IN IF t.port
       THEN [t |-> t1, ops |-> Append(ops1, "port.close"), pc |-> "closeAwait"]
       ELSE [t |-> t1, ops |-> ops1, pc |-> "done"]

\* variant: reader.cancel() is called without the `if (this.reader)` test
serialDisconnectUnguarded(t) ==
    IF t.reader
    THEN [t |-> [t EXCEPT !.reading = FALSE], ops |-> <<"reader.cancel">>,
          pc |-> "cancelAwait"]
    ELSE [t |-> [t EXCEPT !.reading = FALSE], ops |-> <<>>, pc |-> "threw"]

\* SerialTransport.disconnect up to its first await
serialDisconnect(t) ==
    LET t0 == [t EXCEPT !.reading = FALSE]
    IN IF t.reader
       THEN [t |-> t0, ops |-> <<"reader.cancel">>, pc |-> "cancelAwait"]
       ELSE serialRelease(t0, <<>>)

\* SerialTransport.disconnect after `await this.reader.cancel()`: a rejected
\* cancel throws; this.reader.releaseLock() throws when another call has set
\* this.reader to null meanwhile
serialCancelled(t, ok) ==
    IF ~ok \/ ~t.reader
    THEN [t |-> t, ops |-> <<>>, pc |-> "threw"]
    ELSE serialRelease([t EXCEPT !.reader = FALSE], <<"reader.releaseLock">>)

\* SerialTransport.disconnect after `await this.port.close()`
serialClosed(t, ok) ==
    IF ok THEN [t |-> [t EXCEPT !.port = FALSE], ops |-> <<>>, pc |-> "done"]
    ELSE [t |-> t, ops |-> <<>>, pc |-> "threw"]

\* this.transport.disconnect() of the transport class in use
transportDisconnect(t) ==
    IF t.kind = "ble" THEN bleDisconnect(t) ELSE serialDisconnect(t)

\* the state a completed disconnect leaves a transport in
Released(t) ==
    /\ ~t.device /\ ~t.server /\ ~t.service
    /\ ~t.txCharacteristic /\ ~t.rxCharacteristic
    /\ ~t.port /\ ~t.reader /\ ~t.writer /\ ~t.reading

\* where a call stands after a piece of transport code ran: a Device call
\* still has `this.transport = null` to do after its await
callAfter(via, o) ==
    IF o.pc = "done" /\ via = "device" THEN "deviceTail" ELSE o.pc

\* what a disconnect step leaves alone
transportFrame ==
    UNCHANGED <<channelVars, onDataCallback, pc, issued, allData, files, outcome,
                run, callers, dump, reports>>

\* the call record of a call that has run a piece of code
stepped(c, where, t, ops) ==
    [c EXCEPT !.pc = where, !.after = t, !.opsAfter = Len(ops)]

\* device.disconnect() (Device.disconnect) or transport.disconnect() is called
disconnect(via) ==
    /\ Len(disconnects.calls) < MaxDisconnects
    /\ LET t == transport
           o == IF via = "device" /\ ~t.held
                THEN [t |-> t, ops |-> <<>>, pc |-> "done"]
                ELSE LET r == transportDisconnect(t)
                     IN [r EXCEPT !.pc = callAfter(via, r)]
           ops == disconnects.ops \o o.ops
           c == [via |-> via, pc |-> o.pc,
                 already |-> IF via = "device" THEN ~t.held ELSE Released(t),
                 before |-> t, opsBefore |-> Len(disconnects.ops),
                 after |-> o.t, opsAfter |-> Len(ops)]
       IN /\ transport' = o.t
          /\ disconnects' = [calls |-> Append(disconnects.calls, c), ops |-> ops]
    /\ transportFrame

\* a suspended disconnect call resumes: the awaited link operation was
\* fulfilled (ok) or rejected
disconnectResume(i, ok) ==
    /\ i \in 1..Len(disconnects.calls)
    /\ LET c == disconnects.calls[i]
           t == transport
       IN /\ c.pc \in {"bleAwait", "cancelAwait", "closeAwait", "deviceTail"}
          /\ c.pc \in {"bleAwait", "deviceTail"} => ok
          /\ LET r == CASE c.pc = "bleAwait" -> bleDisconnected(t)
                        [] c.pc = "cancelAwait" -> serialCancelled(t, ok)
                        [] c.pc = "closeAwait" -> serialClosed(t, ok)
                        [] c.pc = "deviceTail" ->
                              [t |-> [t EXCEPT !.held = FALSE], ops |-> <<>>,
                               pc |-> "done"]
                 where == IF c.pc = "deviceTail" THEN "done" ELSE callAfter(c.via, r)
                 ops == disconnects.ops \o r.ops
             IN /\ transport' = r.t
                /\ disconnects' =
                      [calls |-> [disconnects.calls EXCEPT ![i] = stepped(c, where, r.t, ops)],
                       ops |-> ops]
    /\ transportFrame

InitDisconnect ==
    /\ driver \in {"ble", "serial"}
    /\ transport = connectedTransport(driver)
    /\ disconnects = NoDisconnects
    /\ input = [cmd |-> 0, status |-> 0, data |-> <<>>, garbage |-> <<>>, flip |-> NoFlip]
    /\ dump = <<>>
    /\ reports = <<>>
    /\ wire = <<>>
    /\ chunks = "none"
    /\ connected = TRUE
    /\ Constructed
    /\ onDataCallback = "none"
    /\ callers = NoCallers
    /\ pc = "idle"
    /\ issued = <<>>
    /\ allData = <<>>
    /\ files = <<>>
    /\ outcome = "none"
    /\ run = NoRun

NextDisconnect ==
    \/ \E via \in {"device", "transport"} : disconnect(via)
    \/ \E i \in 1..MaxDisconnects, ok \in BOOLEAN : disconnectResume(i, ok)

SpecDisconnect == InitDisconnect /\ [][NextDisconnect]_vars

\* ---- channel runs in which every armed timer eventually expires
\* setTimeout: a timer that stays armed fires (the event loop runs it)
InitTimers == Init /\ driver \in ExtensionDrivers

SpecTimers ==
    InitTimers /\ [][Next]_vars /\ \A n \in Requests : WF_vars(Timeout(n))

\* ------------------------------------------- the decoder's loop, by passes
\* one parseFrames call of an extension driver on a drawn buffer, one
\* iteration of its while loop per step; run counts the iterations made
\* (passes) on a buffer of length bytes

\* the streams of the codec runs; of the flipped ones, those with the lowest
\* or the highest bit of a byte inverted
LoopInputs ==
    {in \in CodecInputs : in.flip = NoFlip \/ in.flip[2] \in {0, 7}}

\* the buffers parseFrames is called on: every prefix of a drawn stream
InitLoop ==
    /\ driver \in ExtensionDrivers
    /\ input \in LoopInputs
    /\ \E k \in 1..Len(Stream(input)) :
          /\ buffer = IF driver = "ble" THEN SubSeq(Stream(input), 1, k) ELSE <<>>
          /\ readBuffer = IF driver = "serial" THEN SubSeq(Stream(input), 1, k) ELSE <<>>
          /\ run = [oper |-> "parseFrames", length |-> k, passes |-> 0]
    /\ responseBuffer = <<>>
    /\ wire = <<>>
    /\ chunks = "one"
    /\ connected = TRUE
    /\ log = <<>>
    /\ sent = <<[cmd |-> input.cmd, data |-> <<>>, afterTimeout |-> FALSE, alone |-> TRUE,
               over |-> {}, up |-> TRUE]>>
    /\ written = <<makeDataFrame(input.cmd, <<>>, 0)>>
    /\ answered = {1}
    /\ responseCallbacks = Register(<<>>, input.cmd, 1)
    /\ timers = [n \in Requests |-> IF n = 1 THEN "armed" ELSE "none"]
    /\ promise = [n \in Requests |-> Pending]
    /\ onDataCallback = "parser"
    /\ pc = "loop"
    /\ issued = <<>>
    /\ allData = <<>>
    /\ files = <<>>
    /\ outcome = "none"
    /\ callers = NoCallers
    /\ dump = <<>>
    /\ reports = <<>>
    /\ transport = NoTransport
    /\ disconnects = NoDisconnects

\* the body of the while loop runs once
parseIteration ==
    /\ pc = "loop"
    /\ LET r == IF driver = "ble" THEN iterationBLE(Session(buffer, buffer))
                ELSE iterationSerial(Session(readBuffer, readBuffer))
       IN /\ Store(r.st)
          /\ buffer' = IF driver = "ble" THEN r.st.field ELSE buffer
          /\ readBuffer' = IF driver = "serial" THEN r.st.field ELSE readBuffer
          /\ pc' = IF r.more THEN "loop" ELSE "returned"
          /\ run' = [run EXCEPT !.passes = @ + 1]
    /\ UNCHANGED <<driver, wire, responseBuffer, sent, written, answered, input,
                   chunks, connected>>
    /\ UNCHANGED <<onDataCallback, issued, allData, files, outcome, callers,
                   dump, reports, transport, disconnects>>

NextLoop == parseIteration

SpecLoop == InitLoop /\ [][NextLoop]_vars

\* ------------------------------------------------- bursts: frames in a row
\* several encoded frames reach the decoder with nothing between them, while
\* the first requests (0, 1 or 2 of them) are outstanding

\* request 1 asks for the battery, request 2 sends command 4607
BurstCmds == <<CMD_GET_BATTERY_INFO, 4607>>

\* the frames of a burst: with and without a request waiting for their id
BurstFrames ==
    {[cmd |-> c, status |-> s, data |-> d] :
        c \in {CMD_GET_BATTERY_INFO, 4607, CMD_GET_ACTIVE_SLOT},
        s \in {STATUS_SUCCESS, STATUS_PAR_ERR},
        d \in {<<>>, <<SOF>>}}

Bursts ==
    {<<f, g>> : f \in BurstFrames, g \in BurstFrames}
    \cup {<<f, g, h>> : f \in BurstFrames, g \in BurstFrames,
                        h \in {x \in BurstFrames : x.status = STATUS_SUCCESS}}

\* the bytes of a burst
RECURSIVE Encoded(_)
Encoded(frames) ==
    IF frames = <<>> THEN <<>>
    ELSE makeDataFrame(frames[1].cmd, frames[1].data, frames[1].status)
         \o Encoded(Tail(frames))

InitBurst ==
    /\ driver \in ExtensionDrivers
    /\ \E fs \in Bursts, made \in 0..2 :
          /\ input = [frames |-> fs, made |-> made]
          /\ wire = Encoded(fs)
          /\ sent = [n \in 1..made |->
                        [cmd |-> BurstCmds[n], data |-> <<>>, afterTimeout |-> FALSE,
                         alone |-> TRUE, over |-> {}, up |-> TRUE]]
          /\ written = [n \in 1..made |-> makeDataFrame(BurstCmds[n], <<>>, 0)]
          /\ answered = 1..made
          /\ responseCallbacks =
                [c \in {BurstCmds[n] : n \in 1..made} |->
                    CHOOSE n \in 1..made : BurstCmds[n] = c]
          /\ timers = [n \in Requests |-> IF n <= made THEN "armed" ELSE "none"]
    /\ promise = [n \in Requests |-> Pending]
    /\ chunks = "none"
    /\ connected = TRUE
    /\ buffer = <<>>
    /\ readBuffer = <<>>
    /\ responseBuffer = <<>>
    /\ log = <<>>
    /\ Wired

\* the link hands over the whole burst at once, or the first Mtu bytes
NextBurst == \E k \in {Len(wire), Mtu} : CodecOnData(k)

SpecBurst == InitBurst /\ [][NextBurst]_vars

\* ------------------------------------- the two extension drivers, in step
\* a BLE session and a Serial session get the same inbound chunks and make
\* the same sends; the state variables hold the BLE session (buffer,
\* responseCallbacks, timers, promise, log), run.serial holds the Serial
\* session, and readBuffer is the Serial transport's buffer

\* the Serial session's fields
serialSession ==
    [cbs |-> run.serial.cbs, timers |-> run.serial.timers,
     promise |-> run.serial.promise, log |-> run.serial.log]

InitPair ==
    /\ driver = "ble"
    /\ input \in {in \in CodecInputs : in.flip = NoFlip}
    /\ wire = Stream(input)
    /\ chunks = "none"
    /\ connected = TRUE
    /\ Constructed
    \* the transports are connected; no device class is chosen yet
    /\ onDataCallback = "none"
    /\ run = [oper |-> "pair",
              serial |-> [cbs |-> <<>>, timers |-> [n \in Requests |-> "none"],
                          promise |-> [n \in Requests |-> Pending], log |-> <<>>]]
    /\ pc = "idle"
    /\ issued = <<>>
    /\ allData = <<>>
    /\ files = <<>>
    /\ outcome = "none"
    /\ callers = NoCallers
    /\ dump = <<>>
    /\ reports = <<>>
    /\ transport = NoTransport
    /\ disconnects = NoDisconnects

\* device.connect(type, { transport }) of both classes: the frame parser is
\* registered with the transport
pairConnect ==
    /\ onDataCallback = "none"
    /\ connect
    /\ UNCHANGED <<driver, wire, buffer, readBuffer, responseBuffer, responseCallbacks,
                   timers, promise, sent, written, answered, log, input, chunks,
                   connected, pc, issued, allData, files, outcome, run, callers,
                   dump, reports, transport, disconnects>>

\* both sessions send the command the stream answers
pairSend ==
    /\ onDataCallback = "parser"
    /\ sent = <<>>
    /\ sendCommandBLE(1, input.cmd, <<>>)
    /\ run' = [run EXCEPT !.serial.cbs = Register(@, input.cmd, 1),
                          !.serial.timers[1] = "armed"]
    /\ UNCHANGED <<driver, wire, buffer, readBuffer, responseBuffer, answered, log,
                   input, chunks, connected, onDataCallback, pc, issued, allData,
                   files, outcome, callers, dump, reports, transport, disconnects>>

\* both transports get the next k bytes: BLETransport's listener hands the
\* chunk to the callback if there is one; SerialTransport.startReadLoop
\* appends it to readBuffer and then calls the callback if there is one
pairChunk(k) ==
    /\ k \in 1..Len(wire)
    /\ LET data == SubSeq(wire, 1, k)
           grown == appendChunk(readBuffer, data)
       IN IF onDataCallback = "parser"
          THEN LET newBuffer == appendChunk(buffer, data)
                   st == parseFramesBLE(Session(newBuffer, newBuffer))
                   ss == parseFramesSerial(
                            [buffer |-> grown, field |-> grown] @@ serialSession)
               IN /\ buffer' = st.field
                  /\ Store(st)
                  /\ readBuffer' = ss.field
                  /\ run' = [run EXCEPT !.serial = [cbs |-> ss.cbs, timers |-> ss.timers,
                                                    promise |-> ss.promise, log |-> ss.log]]
          ELSE /\ readBuffer' = grown
               /\ UNCHANGED <<buffer, responseCallbacks, timers, promise, log, run>>
    /\ wire' = SubSeq(wire, k + 1, Len(wire))
    /\ chunks' = IF chunks = "none" THEN "one" ELSE "many"
    /\ UNCHANGED <<driver, responseBuffer, sent, written, answered, input, connected,
                   onDataCallback, pc, issued, allData, files, outcome, callers,
                   dump, reports, transport, disconnects>>

NextPair ==
    \/ pairConnect
    \/ pairSend
    \/ \E k \in {3, Mtu, Len(wire)} : pairChunk(k)

SpecPair == InitPair /\ [][NextPair]_vars


\* ---------------------------------------------------------------- slot change
\* "chameleonultra slot change <n>" and "hw slot change <n>"

\* a JavaScript number that may be NaN
NaN == [nan |-> TRUE, value |-> 0]
Num(v) == [nan |-> FALSE, value |-> v]

DecimalDigits == <<"0", "1", "2", "3", "4", "5", "6", "7", "8", "9">>
isDigit(c) == \E d \in 1..10 : DecimalDigits[d] = c
digitValue(c) == (CHOOSE d \in 1..10 : DecimalDigits[d] = c) - 1

\* the value of a run of decimal digits
RECURSIVE decimal(_)
decimal(ds) ==
    IF ds = <<>> THEN 0
    ELSE decimal(SubSeq(ds, 1, Len(ds) - 1)) * 10 + digitValue(ds[Len(ds)])

\* parseInt(s): an optional sign, then the longest run of decimal digits the
\* string starts with, whatever follows it; NaN when there is no digit there
\* (a console argument holds no white space and is never given a radix prefix)
parseInt(s) ==
    LET signed == s # <<>> /\ s[1] \in {"-", "+"}
        body   == IF signed THEN Tail(s) ELSE s
        n      == CHOOSE k \in 0..Len(body) :
                      /\ \A i \in 1..k : isDigit(body[i])
                      /\ k < Len(body) => ~isDigit(body[k + 1])
        v      == decimal(SubSeq(body, 1, n))
    IN IF n = 0 THEN NaN
       ELSE IF signed /\ s[1] = "-" THEN Num(0 - v) ELSE Num(v)

\* a < b and a > b on numbers: false whenever either side is NaN
lessThan(a, b) == ~a.nan /\ ~b.nan /\ a.value < b.value
greaterThan(a, b) == ~a.nan /\ ~b.nan /\ a.value > b.value

\* a - b on numbers
minus(a, b) == IF a.nan \/ b.nan THEN NaN ELSE Num(a.value - b.value)

\* new Uint8Array([x]): the element is x modulo 256, and 0 for NaN
toUint8(x) == IF x.nan THEN 0 ELSE x.value % 256

\* the arguments a slot change is given; <<>> is a missing argument
MaxArgLen == 3
ArgChars == {"0", "1", "5", "8", "9", "-", "x"}
SlotArgs == UNION {[1..n -> ArgChars] : n \in 0..MaxArgLen}

ChangeRuns ==
    {[oper |-> "change", exit |-> "none", via |-> v, device |-> d, arg |-> a] :
        v \in {"extension", "hw"}, d \in BOOLEAN, a \in SlotArgs}

\* the handler ends: by a return, or by an exception nothing catches
changeEnd(how, reason) ==
    /\ pc' = "done"
    /\ outcome' = how
    /\ run' = [run EXCEPT !.exit = reason]

\* the handler up to its device.cmd call.  The extension's getDevice() throws
\* before anything else when no device is connected; hw checks
\* !chameleonUltra after the usage check
slotChange ==
    /\ pc = "start" /\ run.oper = "change"
    /\ LET slotNum == parseInt(run.arg)
       IN IF run.via = "extension" /\ ~run.device
          THEN changeEnd("thrown", "notconnected")
          ELSE IF run.arg = <<>>
          THEN changeEnd("returned", "usage")
          ELSE IF run.via = "hw" /\ ~run.device
          THEN changeEnd("returned", "notconnected")
          ELSE IF lessThan(slotNum, Num(1)) \/ greaterThan(slotNum, Num(8))
          THEN changeEnd("returned", "range")
          ELSE pc' = "change" /\ UNCHANGED <<outcome, run>>
    /\ UNCHANGED <<issued, allData, files>>
    /\ UNCHANGED sessionVars

\* result = await device.cmd(CMD_SET_ACTIVE_SLOT, new Uint8Array([slotNum - 1]))
\* and what is reported of it
slotChangeCmd(r) ==
    /\ pc = "change" /\ run.oper = "change"
    /\ deviceCmd(CMD_SET_ACTIVE_SLOT,
                 <<toUint8(minus(parseInt(run.arg), Num(1)))>>, r)
    /\ IF r.kind = "rejected" THEN changeEnd("thrown", "thrown")
       ELSE IF r.status = STATUS_SUCCESS THEN changeEnd("returned", "changed")
       ELSE changeEnd("returned", "status")
    /\ UNCHANGED <<allData, files>>
    /\ UNCHANGED sessionVars

InitChange ==
    /\ driver = "ble"
    /\ wire = <<>>
    /\ input = [cmd |-> 0, status |-> 0, data |-> <<>>, garbage |-> <<>>, flip |-> NoFlip]
    /\ chunks = "none"
    /\ connected = TRUE
    /\ Constructed
    /\ onDataCallback = "parser"
    /\ callers = NoCallers
    /\ dump = <<>>
    /\ reports = <<>>
    /\ transport = NoTransport
    /\ disconnects = NoDisconnects
    /\ pc = "start"
    /\ issued = <<>>
    /\ allData = <<>>
    /\ files = <<>>
    /\ outcome = "running"
    /\ run \in ChangeRuns

NextChange ==
    \/ slotChange
    \/ \E r \in StatusResponses(<<>>) : slotChangeCmd(r)

SpecChange == InitChange /\ [][NextChange]_vars


\* ================================================================ claims
\* the response object of a log entry
FrameOf(e) == [cmd |-> e.cmd, status |-> e.status, data |-> e.data]

\* the frame a drawn input encodes
Expected == [cmd |-> input.cmd, status |-> input.status, data |-> input.data]

\* the drawn stream is one encoded frame and nothing else
ValidInput == input.garbage = <<>> /\ input.flip = NoFlip

Resolved(f) == [state |-> "resolved", value |-> f, reason |-> "none"]

\* C1: round-trip framing. The bytes of makeDataFrame(cmd, payload, status),
\* handed in one onData call to a decoder whose buffer is empty, yield
\* exactly one frame, equal to {cmd, status, payload}; the request pending
\* for cmd is resolved with it and the buffer is empty afterwards.
C1_RoundTrip ==
    (ValidInput /\ chunks = "one" /\ wire = <<>>) =>
        /\ Len(log) = 1
        /\ FrameOf(log[1]) = Expected
        /\ promise[1] = Resolved(Expected)
        /\ Buffered = <<>>

C1_Witness ==
    /\ ValidInput /\ chunks = "one" /\ wire = <<>>
    /\ input.cmd = 4607 /\ input.status = 352 /\ Len(input.data) = MaxPayload
    /\ Len(log) = 1

\* the sum of the bytes, modulo 256
ByteSum(bytes) == SumBytes(bytes)

\* C2: every frame that reached the dispatch point starts with SOF and has
\* its three checksums valid (each covered prefix plus its checksum byte sums
\* to 0 mod 256), its fields are the ones its bytes encode, and a promise is
\* only ever resolved with such a frame.
C2_OnlyValidFramesSurface ==
    /\ \A i \in 1..Len(log) :
          LET r == log[i].raw
              n == Len(log[i].data)
          IN /\ Len(r) = 10 + n
             /\ r[1] = SOF
             /\ ByteSum(SubSeq(r, 1, 2)) = 0
             /\ ByteSum(SubSeq(r, 1, 9)) = 0
             /\ ByteSum(r) = 0
             /\ log[i].cmd = r[3] * 256 + r[4]
             /\ log[i].status = r[5] * 256 + r[6]
             /\ n = r[7] * 256 + r[8]
             /\ log[i].data = SubSeq(r, 10, 9 + n)
    /\ \A n \in Requests :
          promise[n].state = "resolved" =>
             \E i \in 1..Len(log) : log[i].handed /\ FrameOf(log[i]) = promise[n].value

\* a candidate that passes the SOF and LRC1 checks and fails LRC2 was
\* discarded, and the valid frame behind it was handed to the closure
C2_Witness ==
    /\ input.garbage = <<SOF, 239>>
    /\ wire = <<>>
    /\ Len(log) = 1 /\ log[1].handed
    /\ log[1].raw = InputFrame(input)
    /\ promise[1] = Resolved(Expected)

\* C3 as stated: any noise bytes followed by one valid frame yield exactly
\* one frame, the valid one, and only the noise is discarded.
C3_ResyncAnyGarbage ==
    (input.flip = NoFlip /\ wire = <<>>) =>
        /\ Len(log) = 1
        /\ log[1].raw = InputFrame(input)
        /\ FrameOf(log[1]) = Expected
        /\ Buffered = <<>>

\* no SOF byte of the noise is followed, inside the noise, by SOF's LRC1
NoCandidateStart(g) ==
    \A i \in 1..(Len(g) - 1) : ~(g[i] = SOF /\ g[i + 1] = lrcCalc(<<SOF>>))

\* C3 amended: noise in which no SOF byte is directly followed by the LRC1
\* of SOF (0xEF), followed by one valid frame, yields exactly one frame, the
\* valid one, consumed from its own first byte on; the buffer is empty
\* afterwards, so exactly the noise was discarded.
C3_ResyncNoCandidate ==
    (input.flip = NoFlip /\ NoCandidateStart(input.garbage) /\ wire = <<>>) =>
        /\ Len(log) = 1
        /\ log[1].raw = InputFrame(input)
        /\ FrameOf(log[1]) = Expected
        /\ promise[1] = Resolved(Expected)
        /\ Buffered = <<>>

C3_Witness ==
    /\ input.flip = NoFlip /\ wire = <<>>
    /\ Len(input.garbage) = MaxGarbage
    /\ NoCandidateStart(input.garbage)
    /\ input.garbage[1] = SOF
    /\ Len(log) = 1 /\ log[1].raw = InputFrame(input)

\* the session as InitCodec leaves it, about to parse the bytes s
FreshSession(s) ==
    [buffer |-> s, field |-> s, cbs |-> Register(<<>>, input.cmd, 1),
     timers |-> [n \in Requests |-> IF n = 1 THEN "armed" ELSE "none"],
     promise |-> [n \in Requests |-> Pending], log |-> <<>>]

\* what one parseFrames call on the whole stream leaves
WholeDelivery ==
    CASE driver = "ble" -> parseFramesBLE(FreshSession(Stream(input)))
      [] driver = "serial" -> parseFramesSerial(FreshSession(Stream(input)))
      [] driver = "legacy" -> parseFramesLegacy(FreshSession(Stream(input)))

\* C4: chunked delivery invariance. Once all the bytes of a valid frame have
\* arrived, in however many onData calls and for each driver, the decoder
\* has emitted the one frame, and log, promises, callbacks and buffer are
\* what a single call with all the bytes leaves.
C4_ChunkedDelivery ==
    (ValidInput /\ wire = <<>>) =>
        /\ Len(log) = 1
        /\ FrameOf(log[1]) = Expected
        /\ log = WholeDelivery.log
        /\ promise = WholeDelivery.promise
        /\ responseCallbacks = WholeDelivery.cbs
        /\ timers = WholeDelivery.timers
        /\ Buffered = WholeDelivery.field

C4_Witness ==
    /\ ValidInput /\ wire = <<>> /\ chunks = "many"
    /\ driver = "serial"
    /\ Len(log) = 1 /\ promise[1].state = "resolved"

\* C5 as stated: a frame with one bit of its SOF, CMD, STATUS, LEN or DATA
\* bytes flipped is rejected: nothing is emitted for it and the decoder
\* advances past it byte by byte (until fewer than the 9 bytes it needs to
\* look at a candidate are left).
C5_BitFlipRejected ==
    (input.flip # NoFlip /\ wire = <<>>) =>
        /\ log = <<>>
        /\ promise[1].state = "pending"
        /\ Len(Buffered) < 9


\* ------------------------------------------------- command channel claims
Sent == 1..Len(sent)

\* the log entries the step appends
NewEntries == (Len(log) + 1)..Len(log')

\* the first entry the step appends for command id c
FirstNew(c) ==
    log'[CHOOSE i \in NewEntries :
            /\ log'[i].cmd = c
            /\ \A j \in NewEntries : log'[j].cmd = c => i <= j]

\* no other call made so far has the command id of call n
UniqueId(n) == \A m \in Sent : m # n => sent[m].cmd # sent[n].cmd

\* C6: command correlation. A send whose command id no other send shares
\* resolves only with the frame carrying its own id that the device sent in
\* answer to it, and it does resolve once that frame is decoded before its
\* timer fired, whatever the order in which the answers to it and to the
\* other outstanding sends arrive.
C6_Correlation ==
    \A n \in Sent :
        UniqueId(n) =>
            /\ promise[n].state = "resolved" =>
                  /\ promise[n].value.cmd = sent[n].cmd
                  /\ promise[n].value.data = sent[n].data
            /\ ((\E i \in 1..Len(log) : log[i].cmd = sent[n].cmd) /\ timers[n] # "fired")
                  => promise[n].state = "resolved"

\* two sends with distinct ids were outstanding together, the answer to the
\* second was decoded first, and both resolved
C6_Witness ==
    /\ Len(sent) >= 2
    /\ sent[1].cmd # sent[2].cmd
    /\ promise[1].state = "resolved" /\ promise[2].state = "resolved"
    /\ Len(log) >= 2
    /\ log[1].cmd = sent[2].cmd /\ log[2].cmd = sent[1].cmd
    /\ written[2] = makeDataFrame(sent[2].cmd, sent[2].data, 0)

\* a registered closure belongs to a request that is pending with its timer armed
RegisteredIsPending ==
    \A c \in DOMAIN responseCallbacks :
        /\ responseCallbacks[c] \in Sent
        /\ sent[responseCallbacks[c]].cmd = c
        /\ promise[responseCallbacks[c]].state = "pending"
        /\ timers[responseCallbacks[c]] = "armed"

\* a frame whose id has a registered closure is decoded in this step
C7_Step ==
    \A c \in DOMAIN responseCallbacks :
        (\E i \in NewEntries : log'[i].cmd = c) =>
            LET n == responseCallbacks[c] IN
            /\ promise'[n] = Resolved(FrameOf(FirstNew(c)))
            /\ c \notin DOMAIN responseCallbacks'
            /\ timers'[n] = "cleared"

\* once resolved, with the timer cancelled, for good
C7_Stable ==
    \A n \in Requests :
        /\ promise[n].state = "resolved" => promise'[n] = promise[n]
        /\ timers[n] = "cleared" => timers'[n] = "cleared"

\* C7: a validated frame whose command id has a pending request (registered,
\* its timer not yet fired) resolves that request's promise with exactly
\* {cmd, status, data} of the frame, removes the entry for the id and cancels
\* the request's timer; the promise never changes afterwards and the timer
\* never fires.
C7_ResponseResolves ==
    /\ []RegisteredIsPending
    /\ [][C7_Step /\ C7_Stable]_vars

C7_Witness ==
    /\ Len(sent) >= 1
    /\ promise[1].state = "resolved"
    /\ promise[1].value = [cmd |-> sent[1].cmd, status |-> STATUS_PAR_ERR, data |-> sent[1].data]
    /\ timers[1] = "cleared"
    /\ sent[1].cmd \notin DOMAIN responseCallbacks

\* the timer of request n fires in this step
C8_Step ==
    \A n \in Sent :
        (timers[n] = "armed" /\ timers'[n] = "fired") =>
            /\ promise'[n] = [state |-> "rejected", value |-> NoFrame, reason |-> "timeout"]
            /\ sent[n].cmd \notin DOMAIN responseCallbacks'
            /\ \A c \in DOMAIN responseCallbacks' : responseCallbacks'[c] # n

\* a request that was rejected has no closure registered
C8_NoneLeft ==
    \A c \in DOMAIN responseCallbacks : promise[responseCallbacks[c]].state # "rejected"

\* C8: when the timer of a request fires, its promise is rejected with the
\* timeout error and responseCallbacks holds no entry for its command id;
\* no closure of a rejected request is registered at any later time.
C8_TimeoutRejects ==
    /\ []C8_NoneLeft
    /\ [][C8_Step]_vars

C8_Witness ==
    /\ Len(sent) >= 1
    /\ timers[1] = "fired"
    /\ promise[1].state = "rejected" /\ promise[1].reason = "timeout"
    /\ log = <<>>
    /\ DOMAIN responseCallbacks = {}


\* the requests whose answer (the echo of their payload under their id) the
\* log entry e is
AnswerTo(e) == {m \in Sent : sent[m].cmd = e.cmd /\ sent[m].data = e.data}

\* the frame decoded in this step answers a request that had timed out
LateEntry(i) ==
    \E m \in AnswerTo(log'[i]) : promise[m].state = "rejected"

\* a send is resolved only by the answer to itself
ResolvedByOwnAnswer ==
    \A n \in Sent :
        promise[n].state = "resolved" =>
            /\ promise[n].value.cmd = sent[n].cmd
            /\ promise[n].value.data = sent[n].data

PendingFor(c) == {n \in Sent : sent[n].cmd = c /\ promise[n].state = "pending"}

\* a send is resolved only by the answer to itself or to an earlier send of
\* the same command id
ResolvedBySameId ==
    \A n \in Sent :
        promise[n].state = "resolved" =>
            \E m \in 1..n :
                /\ sent[m].cmd = sent[n].cmd
                /\ promise[n].value.cmd = sent[m].cmd
                /\ promise[n].value.data = sent[m].data

C9_LateStep ==
    /\ \A i \in NewEntries :
          LateEntry(i) =>
             /\ PendingFor(log'[i].cmd) = {} => ~log'[i].handed
             /\ log'[i].handed =>
                   \E n \in PendingFor(log'[i].cmd) :
                       /\ promise'[n].state = "resolved"
                       /\ promise'[n].value.cmd = log'[i].cmd
    /\ \A m \in Requests : promise[m].state = "rejected" => promise'[m] = promise[m]

LaterSend(n) ==
    /\ sent[n].afterTimeout
    /\ sent[n].alone
    /\ \A m \in Sent : m > n => sent[m].cmd # sent[n].cmd

C10_Step ==
    \A n \in Sent :
        (/\ LaterSend(n)
         /\ promise[n].state = "pending"
         /\ \E i \in NewEntries : log'[i].cmd = sent[n].cmd)
        => /\ promise'[n] = Resolved(FrameOf(FirstNew(sent[n].cmd)))
           /\ FirstNew(sent[n].cmd).handed

\* a later send is rejected by nothing but its own timer
C10_OwnTimerOnly ==
    \A n \in Sent :
        (LaterSend(n) /\ promise[n].state = "pending" /\ promise'[n].state = "rejected")
        => (timers[n] = "armed" /\ timers'[n] = "fired")

Latest(n) == \A m \in Sent : m > n => sent[m].cmd # sent[n].cmd

\* send m was outstanding when a later send with its command id was made
Overwritten(m) == \E n \in Sent : m \in sent[n].over

\* the second of two overlapping sends takes the next frame with their id
C11_NextFrameToSecond ==
    \A n \in Sent :
        (/\ sent[n].over # {}
         /\ Latest(n)
         /\ promise[n].state = "pending"
         /\ \E i \in NewEntries : log'[i].cmd = sent[n].cmd)
        => promise'[n] = Resolved(FrameOf(FirstNew(sent[n].cmd)))

\* a send whose continuation was replaced is never resolved, and nothing but
\* its own timer rejects it
C11_FirstOnlyTimesOut ==
    \A m \in Sent :
        Overwritten(m) =>
            /\ promise'[m].state # "resolved"
            /\ (promise[m].state = "pending" /\ promise'[m].state = "rejected")
                  => (timers[m] = "armed" /\ timers'[m] = "fired")

\* a send that is made registers its own continuation under its command id
C11_Replaces ==
    Len(sent') > Len(sent) =>
        LET n == Len(sent') IN
        promise'[n].state = "pending" => responseCallbacks'[sent'[n].cmd] = n

\* C11: the pending-request map holds one continuation per command id; a
\* second send for an id that is still outstanding replaces the first's
\* continuation, so the next frame with that id resolves the second send,
\* and the first send never receives a frame and ends only by its own timeout.
C11_Overwrite ==
    [][C11_Replaces /\ C11_NextFrameToSecond /\ C11_FirstOnlyTimesOut]_vars

\* C12: a registration is destroyed only by its own request's response or
\* its own request's timeout: when the entry of request n disappears from
\* the map, a frame with its command id was decoded in that step or the
\* timer of n itself fired in that step (never the timer of another request).
C12_OwnArmOnly ==
    [][\A c \in DOMAIN responseCallbacks :
          c \notin DOMAIN responseCallbacks' =>
             LET n == responseCallbacks[c] IN
             \/ \E i \in NewEntries : log'[i].cmd = c
             \/ timers[n] = "armed" /\ timers'[n] = "fired"]_vars


\* ------------------------------------------------ command handler claims
\* the positions in issued of the SET_ACTIVE_MODE(emulator) command
Restorations ==
    {i \in 1..Len(issued) :
        issued[i].cmd = CMD_SET_ACTIVE_MODE /\ issued[i].data = <<0>>}

\* C13: mode-switch guarantee. Once the scan-and-save script has issued its
\* reader-mode switch, whichever way it leaves (success, switch refused, no
\* tag, failed page read, a command or the save throwing), it has issued
\* SET_ACTIVE_MODE(emulator) exactly once when it has ended, as the last of
\* its commands, and never before it leaves the try block.
C13_ModeSwitchGuarantee ==
    run.oper = "scan" =>
        /\ issued # <<>> =>
              issued[1].cmd = CMD_SET_ACTIVE_MODE /\ issued[1].data = <<1>>
        /\ (pc = "done" /\ issued # <<>>) => Restorations = {Len(issued)}
        /\ pc # "done" => Restorations = {}

\* the bulk read threw partway through and the emulator mode was restored
C13_Witness ==
    /\ pc = "done"
    /\ run.oper = "scan" /\ run.exit = "thrown" /\ run.page >= 8
    /\ issued[Len(issued) - 1].cmd = CMD_HF14A_RAW
    /\ Restorations = {Len(issued)}


\* the bulk read requests the handler has issued, in order
IsRead(e) == e.cmd \in {CMD_MF0_NTAG_READ_EMU_PAGE_DATA, CMD_MF1_READ_EMU_BLOCK_DATA}
Reads == SelectSeq(issued, IsRead)

\* the slot save handler is in, or past, its bulk read of N units
InBulkRead == run.oper = "save" /\ run.frequency = "hf" /\ run.tagType # 0
BulkReadDone == InBulkRead /\ (pc = "save" \/ run.exit \in {"saved", "notsaved"})

\* C14: bulk transfer chunking. A bulk read of N units issues its requests
\* one after the other, request k (from 0) carrying start index 32*k and
\* count min(32, N - 32*k); when the read is complete, every chunk answered
\* with success and count*unitSize bytes, exactly ceil(N/32) requests were
\* issued and the image has N*unitSize bytes, chunk k's bytes at offset
\* k*32*unitSize.
C14_BulkChunking ==
    InBulkRead =>
        LET N == totalUnits IN
        /\ \A k \in 0..(Len(Reads) - 1) :
              /\ 32 * k < N
              /\ Reads[k + 1].data = <<32 * k, Min(32, N - 32 * k)>>
        /\ (BulkReadDone /\ run.odd = 0) =>
              /\ Len(Reads) = CeilDiv(N, 32)
              /\ Len(allData) = N * unitSize
              /\ \A k \in 0..(Len(Reads) - 1) :
                    SubSeq(allData, k * 32 * unitSize + 1,
                           k * 32 * unitSize + Min(32, N - 32 * k) * unitSize)
                      = tagBytes(k * 32 * unitSize, Min(32, N - 32 * k) * unitSize)
              /\ \A i \in 1..Len(files) : files[i] = allData

\* an NTAG215 slot was saved: 135 pages in 5 requests, the last for 7 pages,
\* 540 bytes
C14_Witness ==
    /\ run.oper = "save" /\ run.exit = "saved" /\ run.odd = 0
    /\ run.tagType = 1101
    /\ Len(Reads) = 5
    /\ Reads[5].data = <<128, 7>>
    /\ Len(files) = 1 /\ Len(files[1]) = 540


\* the chunk requests of the bulk operations, and the status that is success
\* for each
ChunkCmds ==
    {CMD_HF14A_RAW, CMD_MF0_NTAG_READ_EMU_PAGE_DATA, CMD_MF1_READ_EMU_BLOCK_DATA,
     CMD_MF0_NTAG_WRITE_EMU_PAGE_DATA, CMD_MF1_WRITE_EMU_BLOCK_DATA}
SuccessOf(c) == IF c = CMD_HF14A_RAW THEN HF_TAG_OK ELSE STATUS_SUCCESS

\* the i-th command issued was a chunk request answered with a status that
\* is not success
FailedChunk(i) ==
    /\ issued[i].cmd \in ChunkCmds
    /\ issued[i].answer.kind = "resolved"
    /\ issued[i].answer.status # SuccessOf(issued[i].cmd)

\* C15: the first chunk of a bulk read or write answered with a status that
\* is not success aborts the operation: the handler is in its exit, no chunk
\* request follows (the only command that follows is the scanner's return to
\* emulator mode) and no image file is written.
C15_ChunkFailureAborts ==
    \A i \in 1..Len(issued) :
        FailedChunk(i) =>
            /\ pc \in {"finally", "done"}
            /\ files = <<>>
            /\ \A j \in (i + 1)..Len(issued) :
                  /\ run.oper = "scan"
                  /\ j = Len(issued)
                  /\ issued[j].cmd = CMD_SET_ACTIVE_MODE /\ issued[j].data = <<0>>

\* the third chunk of a slot load failed after two chunks were written
C15_Witness ==
    /\ run.oper = "load" /\ pc = "done"
    /\ Len(issued) >= 3
    /\ FailedChunk(Len(issued))
    /\ issued[Len(issued)].data[1] = 64
    /\ issued[Len(issued) - 1].cmd = issued[Len(issued)].cmd
    /\ ~FailedChunk(Len(issued) - 1)


\* the handler has ended after a chunk that failed
EndedOnFailedChunk == pc = "done" /\ issued # <<>> /\ \E i \in 1..Len(issued) : FailedChunk(i)

\* C16 as stated: a chunk answered with a status that is not success makes
\* the operation end for its caller by an error that is thrown (a rejected
\* promise), not by a normal return.
C16_ChunkFailureThrows == EndedOnFailedChunk => outcome = "thrown"

\* the first unit of the chunk the handler was at
ChunkAt == IF run.oper = "scan" THEN run.page ELSE run.index

\* C16 amended: a chunk answered with a status that is not success makes the
\* operation log an error message that names the failed chunk (its first
\* unit) and the status, and end by a normal return to its caller: nothing
\* is thrown.
C16_ChunkFailureReported ==
    EndedOnFailedChunk =>
        /\ outcome = "returned"
        /\ run.exit \in {"chunkfail", "pagefail"}
        /\ Len(run.error) = 3
        /\ run.error[1] = ChunkAt
        /\ run.error[2] >= run.error[1]
        /\ \E i \in 1..Len(issued) :
              FailedChunk(i) /\ run.error[3] = issued[i].answer.status

\* the second read request of a slot save failed
C16_Witness ==
    /\ EndedOnFailedChunk
    /\ run.oper = "save" /\ run.index = 32
    /\ run.error = <<32, 63, STATUS_PAR_ERR>>
    /\ outcome = "returned"


\* the bulk read of the running handler: its unit count, unit size and the
\* unit indices its chunks start at
ReadUnits == IF run.oper = "scan" THEN totalPages ELSE totalUnits
ReadUnitSize == IF run.oper = "scan" THEN pageSize ELSE unitSize
ChunkStarts ==
    {i \in 0..(ReadUnits - 1) : i % (IF run.oper = "scan" THEN 4 ELSE 32) = 0}

\* the handler is a bulk read: the scanner, or slot save of an HF slot
IsBulkRead == run.oper = "scan" \/ InBulkRead

\* C17: an image saved by a bulk read has exactly totalUnits*unitSize bytes
\* and holds, at offset i*unitSize, the bytes of the chunk that started at
\* unit i, whatever number of data bytes the successful responses carried.
C17_PreSizedImage ==
    IsBulkRead =>
        \A f \in 1..Len(files) :
            /\ Len(files[f]) = ReadUnits * ReadUnitSize
            /\ \A i \in ChunkStarts :
                  files[f][i * ReadUnitSize + 1] = tagMemory(i * ReadUnitSize)


\* the session was established, by one of the connection paths
Established == run.oper \in {"connectDevice", "connectButton", "showDeviceSelectionModal"}

\* request n was written, the device answered it, every byte of the answer
\* was delivered by the transport, and neither a timeout nor another request
\* with the same command id interfered
AnswerDelivered(n) ==
    /\ n \in 1..Len(written)
    /\ n \in answered
    /\ wire = <<>>
    /\ timers[n] # "fired"
    /\ \A m \in 1..Len(sent) : m # n => sent[m].cmd # sent[n].cmd

\* C18: once a session is established through any connection path, every
\* chunk the transport delivers reaches the session's buffer and decoder, so
\* a request whose valid response frame was delivered is resolved with it.
C18_Wiring ==
    Established =>
        \A n \in 1..Len(sent) :
            AnswerDelivered(n) =>
                /\ promise[n].state = "resolved"
                /\ promise[n].value.cmd = sent[n].cmd


\* request n was sent while the link was down: the transport write threw
WriteFailed(n) == n \in 1..Len(sent) /\ ~sent[n].up

\* C19: when the transport write of a send fails, the promise sendCommand
\* returned is rejected with the transport's error: it is never resolved,
\* and it is never settled with another error such as the response timeout.
C19_WriteFailureSurfaced ==
    \A n \in 1..Len(sent) :
        WriteFailed(n) =>
            /\ promise[n].state # "resolved"
            /\ promise[n].state = "rejected" => promise[n].reason = "not connected"


\* the status field as the bytes of a logged frame carry it
WireStatus(e) == headerField(e.raw, 4)

\* the logged frames the dispatch handed to a closure registered for them
Handed == {i \in 1..Len(log) : log[i].handed}

\* C20: a validated frame matched to a pending request resolves the request,
\* whatever its status, with the status the frame carried; a promise is
\* rejected by the timeout or the missing connection only, never because of
\* a status.
C20_RawStatus ==
    /\ \A i \in Handed :
          \E n \in 1..Len(sent) :
              /\ sent[n].cmd = log[i].cmd
              /\ promise[n].state = "resolved"
              /\ promise[n].value = FrameOf(log[i])
              /\ promise[n].value.status = WireStatus(log[i])
    /\ \A n \in Requests :
          /\ promise[n].state = "rejected" => promise[n].reason \in {"timeout", "not connected"}
          /\ promise[n].state = "resolved" =>
                \E i \in Handed : promise[n].value = FrameOf(log[i])

\* a request was resolved with a frame whose status is not success
C20_Witness ==
    \E n \in 1..Len(sent) :
        /\ promise[n].state = "resolved"
        /\ promise[n].value.status = STATUS_PAR_ERR
        /\ \E i \in Handed : WireStatus(log[i]) = STATUS_PAR_ERR /\ log[i].cmd = sent[n].cmd


\* two different requests with the same command id are both outstanding
Overlap(m, n) ==
    /\ m # n
    /\ sent[m].cmd = sent[n].cmd
    /\ promise[m].state = "pending"
    /\ promise[n].state = "pending"

\* C21: the callers of a session (status bar interval, status bar event
\* hooks, shell commands) never have two sends with the same command id
\* outstanding at the same time.
C21_SerializedPerId ==
    \A m, n \in 1..Len(sent) : ~Overlap(m, n)


\* the commands that read or write the emulation memory of the active slot
ActiveSlotCmds ==
    {CMD_MF0_NTAG_READ_EMU_PAGE_DATA, CMD_MF1_READ_EMU_BLOCK_DATA, CMD_EM410X_GET_EMU_ID,
     CMD_MF0_NTAG_WRITE_EMU_PAGE_DATA, CMD_MF1_WRITE_EMU_BLOCK_DATA, CMD_EM410X_SET_EMU_ID}

\* the j-th command of the handler confirmed slot s as the active slot: a
\* fetch answered with success and s, or a switch to s answered with success
ConfirmsSlot(j, s) ==
    /\ issued[j].answer.kind = "resolved"
    /\ issued[j].answer.status = STATUS_SUCCESS
    /\ \/ issued[j].cmd = CMD_GET_ACTIVE_SLOT /\ issued[j].answer.head = s
       \/ issued[j].cmd = CMD_SET_ACTIVE_SLOT /\ issued[j].data = <<s>>

\* C22: in slot load and slot save for slot s, a command on the emulation
\* memory of the active slot is sent only after a fetch of the active slot
\* that gave s, or a switch to s that succeeded.
C22_ConfirmedActiveSlot ==
    run.oper \in {"save", "load"} =>
        \A i \in 1..Len(issued) :
            issued[i].cmd \in ActiveSlotCmds =>
                \E j \in 1..(i - 1) : ConfirmsSlot(j, run.slotNum)


\* the HF14A_SCAN commands the scanner issued, and those answered with no
\* tag (a response with no data)
Scans == {i \in 1..Len(issued) : issued[i].cmd = CMD_HF14A_SCAN}
NoTag(i) == issued[i].answer.kind = "resolved" /\ issued[i].answer.head = -1
TagReported(i) == issued[i].answer.kind = "resolved" /\ issued[i].answer.head # -1

\* the scanner is past its scan loop
ScanLoopLeft ==
    /\ run.oper = "scan"
    /\ Scans # {} \/ pc = "read"
    /\ pc # "scan"

\* C23: the scan loop issues between 1 and maxRetries HF14A_SCAN commands and
\* none after the first response that reports a tag; when all maxRetries
\* attempts report no tag, the script ends by its reported no-tag return:
\* nothing is thrown, no page read is issued and no file is written.
C23_ScanRetryLoop ==
    run.oper = "scan" =>
        /\ Cardinality(Scans) <= maxRetries
        /\ pc \in {"read", "save"} => Cardinality(Scans) >= 1
        /\ \A i \in Scans : TagReported(i) => \A j \in Scans : j <= i
        /\ \A i \in Scans : NoTag(i) /\ Cardinality({j \in Scans : j <= i}) < maxRetries
                               => pc = "scan" \/ \E j \in Scans : j > i
        /\ (Cardinality(Scans) = maxRetries /\ \A i \in Scans : NoTag(i)) =>
              /\ pc \in {"finally", "done"}
              /\ run.exit = "notag"
              /\ \A i \in 1..Len(issued) : issued[i].cmd # CMD_HF14A_RAW
              /\ files = <<>>
              /\ pc = "done" => outcome = "returned"

\* five attempts found no tag and the script has ended
C23_Witness ==
    /\ run.oper = "scan"
    /\ pc = "done"
    /\ Cardinality(Scans) = maxRetries
    /\ \A i \in Scans : NoTag(i)
    /\ run.exit = "notag"


\* the sum of the first n bytes of frame f is 0 mod 256
SumsToZero(f, n) == SumBytes(SubSeq(f, 1, n)) = 0

\* frame f is the layout of command c, status s and payload d
Layout(f, c, s, d) ==
    LET L == Len(d) IN
    /\ Len(f) = 10 + L
    /\ \A i \in 1..Len(f) : f[i] \in 0..255
    /\ f[1] = 17
    /\ f[3] * 256 + f[4] = c
    /\ f[5] * 256 + f[6] = s
    /\ f[7] * 256 + f[8] = L
    /\ SubSeq(f, 10, 9 + L) = d
    /\ SumsToZero(f, 2)
    /\ SumsToZero(f, 9)
    /\ SumsToZero(f, 10 + L)

\* C24: for a command id and a status in 0..65535 and a payload of L bytes,
\* makeDataFrame returns 10+L bytes: SOF=0x11, LRC1, CMD, STATUS and LEN=L
\* big-endian, LRC2, the payload, LRC3, each checksum byte making the sum of
\* the bytes up to and including it 0 mod 256.
C24_EncodeLayout ==
    \A i \in 1..Len(written) :
        input.cmd \in EncodeWords => Layout(written[i], input.cmd, input.status, input.data)

\* a frame with a two-byte length field and two-byte command and status
C24_Witness ==
    /\ Len(written) = 1
    /\ input.cmd = 65535 /\ input.status = 65535
    /\ Len(input.data) = 65535
    /\ Len(written[1]) = 65545
    /\ written[1][7] = 255 /\ written[1][8] = 255


\* C25: every frame the decoder emits to a caller has a payload of at most
\* MAX_DATA_LENGTH = 4096 bytes.
C25_PayloadLimit ==
    /\ \A i \in 1..Len(log) : Len(log[i].data) <= MAX_DATA_LENGTH
    /\ \A n \in Requests :
          promise[n].state = "resolved" => Len(promise[n].value.data) <= MAX_DATA_LENGTH


\* the buffer that was drawn for the analysis run
Drawn == input.data

\* C26: the classification of a 5-byte buffer, whatever its content, is tag
\* family EM410x, frequency LF and confidence 95.
C26_FiveBytes ==
    \A i \in 1..Len(reports) :
        Len(Drawn) = 5 =>
            /\ reports[i].tagType = "EM410X"
            /\ reports[i].frequency = "LF"
            /\ reports[i].confidence = 95


\* the names and sizes of the table geometries, by family group
HfGeometry ==
    [n \in {80, 164, 180, 540, 924, 320, 1024, 2048, 4096, 64, 192} |->
        CASE n = 80 -> "NTAG 210" [] n = 164 -> "NTAG 212" [] n = 180 -> "NTAG 213"
          [] n = 540 -> "NTAG 215" [] n = 924 -> "NTAG 216" [] n = 320 -> "Mifare Mini"
          [] n = 1024 -> "Mifare Classic 1K" [] n = 2048 -> "Mifare Classic 2K"
          [] n = 4096 -> "Mifare Classic 4K" [] n = 64 -> "Mifare Ultralight"
          [] n = 192 -> "Mifare Ultralight C"]
LfGeometry ==
    [n \in {5, 264, 96} |->
        CASE n = 5 -> "EM410X" [] n = 264 -> "T5577" [] n = 96 -> "HID Prox"]

\* the classification the claim gives a non-empty buffer of n bytes
ByLength(n) ==
    IF n \in DOMAIN HfGeometry
    THEN [tagType |-> HfGeometry[n], frequency |-> "HF", confidence |-> 90]
    ELSE IF n \in DOMAIN LfGeometry
    THEN [tagType |-> LfGeometry[n], frequency |-> "LF", confidence |-> 90]
    ELSE IF n >= 64 /\ n <= 1024
    THEN [tagType |-> "Unknown HF/NFC", frequency |-> "HF", confidence |-> 50]
    ELSE IF n < 64
    THEN [tagType |-> "Unknown LF", frequency |-> "LF", confidence |-> 50]
    ELSE [tagType |-> "Unknown", frequency |-> "null", confidence |-> 0]

Classified(r) ==
    [tagType |-> r.tagType, frequency |-> r.frequency, confidence |-> r.confidence]

C28_Total ==
    \A i \in 1..Len(reports) :
        /\ ~reports[i].thrown
        /\ reports[i].error <=> Len(Drawn) = 0
        /\ (Len(Drawn) > 1024 /\ Len(Drawn) \notin DOMAIN HfGeometry) =>
              /\ reports[i].tagType = "Unknown"
              /\ reports[i].confidence = 0
              /\ reports[i].details = NoDetails

\* a buffer one byte longer than the largest geometry was analysed
C28_Witness ==
    /\ Len(Drawn) = 4097
    /\ Len(reports) = 1
    /\ reports[1].tagType = "Unknown" /\ ~reports[1].error /\ ~reports[1].thrown


NdefCase(d, length) ==
    /\ Len(d) >= 29
    /\ \A o \in 16..19 : at(d, o) # 3
    /\ at(d, 20) = 3
    /\ at(d, 21) = length
    /\ at(d, 22) % 8 = 1
    /\ at(d, 23) = 1
    /\ at(d, 24) = 3
    /\ at(d, 25) = 84
    /\ slice(d, 26, 29) = <<104, 105, 33>>

\* the report's NDEF record has typeNameFormat 1 and type "T"
TypedRecord(r) ==
    /\ "ndef" \in r.details.keys
    /\ r.details.ndef.typeNameFormat = 1
    /\ "type" \in r.details.ndef.keys
    /\ r.details.ndef.type = <<84>>

\* the report's NDEF record has payloadText "hi!"
HiText(r) ==
    /\ "payloadText" \in r.details.ndef.keys
    /\ r.details.ndef.payloadText = <<104, 105, 33>>

\* C30 as stated: with the TLV length byte 0x05 the report's NDEF record has
\* typeNameFormat 1, type "T" and payloadText "hi!".
C30_NdefLength5 ==
    \A i \in 1..Len(reports) :
        (reports[i].frequency = "HF" /\ NdefCase(Drawn, 5)) =>
            TypedRecord(reports[i]) /\ HiText(reports[i])

\* C30 amended: with the TLV length byte 0x07, the length of the record,
\* the report's NDEF record has typeNameFormat 1, type "T" and payloadText
\* "hi!"; with the length byte 0x05 it has typeNameFormat 1 and type "T" and
\* neither payload nor payloadText, the TLV value ending before the payload.
C30_NdefByLength ==
    \A i \in 1..Len(reports) :
        reports[i].frequency = "HF" =>
            /\ NdefCase(Drawn, 7) => TypedRecord(reports[i]) /\ HiText(reports[i])
            /\ NdefCase(Drawn, 5) =>
                  /\ TypedRecord(reports[i])
                  /\ reports[i].details.ndef.keys = {"type"}
                  /\ reports[i].details.ndef.payloadText = <<>>

\* an NTAG 215 image with the record under a TLV of length 5 was analysed
C30_Witness ==
    /\ Len(Drawn) = 540 /\ NdefCase(Drawn, 5)
    /\ Len(reports) = 1
    /\ reports[1].frequency = "HF"
    /\ reports[1].details.ndefLength = 5
    /\ TypedRecord(reports[1])
    /\ "payloadText" \notin reports[1].details.ndef.keys


\* the four ID bytes of a drawn 5-byte buffer as upper-case hex digits
HexOfBytes ==
    LET h(b) == <<hexChars[(b \div 16) + 1], hexChars[(b % 16) + 1]>>
    IN toUpperCase(h(Drawn[2]) \o h(Drawn[3]) \o h(Drawn[4]) \o h(Drawn[5]))

\* C31: for every 5-byte buffer the reported ID is the unsigned big-endian
\* value of bytes 1..4 (compared by its high and low 16 bits), its hex form
\* is that value as 8 hex digits, and byte 0 is reported as the version.
C31_UnsignedId ==
    \A i \in 1..Len(reports) :
        Len(Drawn) = 5 =>
            /\ reports[i].details.customerId \div 65536 = Drawn[2] * 256 + Drawn[3]
            /\ reports[i].details.customerId % 65536 = Drawn[4] * 256 + Drawn[5]
            /\ reports[i].details.customerIdHex = HexOfBytes
            /\ reports[i].details.version = Drawn[1]


\* the disconnect calls that found the transport (for a Device call: the
\* Device) already disconnected
SecondDisconnects ==
    {i \in 1..Len(disconnects.calls) : disconnects.calls[i].already}

\* C32: a disconnect call on a transport or device that is already
\* disconnected raises no error, performs no link operation and leaves the
\* state as the earlier disconnect left it.
C32_Idempotent ==
    \A i \in SecondDisconnects :
        LET c == disconnects.calls[i]
        IN /\ c.pc = "done"
           /\ c.opsAfter = c.opsBefore
           /\ c.after = c.before

C32_Witness ==
    /\ transport.kind = "serial"
    /\ Len(disconnects.ops) = 4
    /\ \E i, j \in SecondDisconnects :
          /\ disconnects.calls[i].via = "device"
          /\ disconnects.calls[j].via = "transport"


\* request n was made: its sendCommand call returned a promise
Made(n) == n <= Len(sent)

Settled(n) == promise[n].state # "pending"

\* a settled promise has no live path to the other outcome: a resolved
\* request's timer was cleared, a rejected request's closure is not stored
OneOutcome(n) ==
    /\ promise[n].state = "resolved" => timers[n] = "cleared"
    /\ promise[n].state = "rejected" =>
          \A k \in DOMAIN responseCallbacks : responseCallbacks[k] # n

\* C33: every send settles, exactly once: a made request's promise is
\* eventually resolved or rejected, a settled promise never changes, and a
\* resolved one is never rejected nor a rejected one resolved.
C33_SettlesOnce ==
    /\ \A n \in Requests : Made(n) ~> Settled(n)
    /\ [][\A n \in Requests : Settled(n) => promise'[n] = promise[n]]_vars
    /\ [](\A n \in Requests : OneOutcome(n))

\* a send whose closure was overwritten by a later send of the same id is
\* rejected by its timer, the later one resolved; a send whose write failed
\* is rejected too
C33_Witness ==
    /\ Len(sent) = 2
    /\ sent[2].over = {1}
    /\ promise[1].reason = "timeout"
    /\ promise[2].state = "resolved"


\* what an iteration of the loop did to the stored buffer
Stopped == pc' = "returned"
SkippedByte == Len(Buffered') = Len(Buffered) - 1 /\ log' = log
ConsumedFrame ==
    /\ Len(log') = Len(log) + 1
    /\ Len(Buffered') = Len(Buffered) - Len(log'[Len(log')].raw)

\* the buffer parseFrames leaves: too short for a header, or the start of a
\* frame that is not complete yet
AwaitsMore(buf) ==
    \/ Len(buf) < 9
    \/ /\ buf[1] = SOF
       /\ ~lrcMismatch(buf, 1)
       /\ Len(buf) < 9 + headerField(buf, 6) + 1

\* C34: parseFrames terminates on every buffer, after at most one iteration
\* per byte and the one that stops: an iteration stops or
\* shortens the buffer, by one byte on a failed check and by the frame's
\* length on a valid frame, and the buffer left on return is shorter than 9
\* bytes or starts with SOF and a valid LRC1 of an incomplete frame.
C34_LoopTerminates ==
    /\ [](run.passes <= run.length + 1)
    /\ [][pc = "loop" => Stopped \/ SkippedByte \/ ConsumedFrame]_vars
    /\ [](pc = "returned" => AwaitsMore(Buffered))

\* the loop consumed a frame and stopped on the incomplete frame behind it,
\* in more iterations than one
C34_Witness ==
    /\ pc = "returned"
    /\ run.passes = 2
    /\ Len(log) = 1
    /\ Len(Buffered) >= 9


\* the frames of the burst, and the requests outstanding when it arrived
Burst == input.frames
Outstanding == 1..input.made

\* frame i is the first frame of the burst with its command id
FirstOfId(i) == \A j \in 1..(i - 1) : Burst[j].cmd # Burst[i].cmd

\* a request was outstanding for the id of frame i when the burst arrived
Awaited(i) == \E n \in Outstanding : BurstCmds[n] = Burst[i].cmd

\* every frame of the burst was emitted, in buffer order, with its own
\* 9 + LEN + 1 bytes taken off the buffer
AllEmitted ==
    /\ Len(log) = Len(Burst)
    /\ \A i \in 1..Len(Burst) :
          /\ FrameOf(log[i]) = Burst[i]
          /\ Len(log[i].raw) = 9 + Len(Burst[i].data) + 1
          /\ log[i].handed <=> (FirstOfId(i) /\ Awaited(i))
    /\ Buffered = <<>>

\* a request whose id no frame of the burst carries is as it was
OthersUntouched ==
    \A n \in Outstanding :
        (\A i \in 1..Len(Burst) : Burst[i].cmd # BurstCmds[n]) =>
            /\ BurstCmds[n] \in DOMAIN responseCallbacks
            /\ responseCallbacks[BurstCmds[n]] = n
            /\ promise[n] = Pending
            /\ timers[n] = "armed"

\* C35: a buffer of several complete valid frames back to back is emitted
\* whole and in order, each frame's 9+LEN+1 bytes removed, whether or not a
\* request is pending for a frame's id; a frame without a pending
\* request is consumed and leaves the pending entries as they were.
C35_BackToBack ==
    wire = <<>> => AllEmitted /\ OthersUntouched

\* one call took three frames: the first answered request 1, the second had
\* no request, the third carried the first one's id again; request 2 waits
C35_Witness ==
    /\ chunks = "one" /\ wire = <<>>
    /\ input.made = 2
    /\ Len(log) = 3
    /\ log[1].handed /\ ~log[2].handed /\ ~log[3].handed
    /\ log[1].cmd = CMD_GET_BATTERY_INFO /\ log[3].cmd = CMD_GET_BATTERY_INFO
    /\ log[2].cmd = CMD_GET_ACTIVE_SLOT
    /\ promise[1].state = "resolved" /\ promise[2].state = "pending"


\* C36: the BLE and the Serial decoder, fed the same chunks, have emitted the
\* same frames and hold the same residual bytes after each chunk.
C36_SameCodec ==
    /\ run.serial.log = log
    /\ readBuffer = buffer


\* the write requests a slot load has made so far, in order
IsChunkWrite(e) ==
    e.cmd \in {CMD_MF0_NTAG_WRITE_EMU_PAGE_DATA, CMD_MF1_WRITE_EMU_BLOCK_DATA}
ChunkWrites == SelectSeq(issued, IsChunkWrite)

\* the units the k-th write request (k from 0) has to carry
UnitsOfChunk(k) == Min(unitsPerRequest, writeTotalUnits - unitsPerRequest * k)

\* C37: in slot load the k-th write request carries the start unit index 32*k
\* of its chunk and the count min(32, totalUnits - 32*k): as fields of the
\* request for pages, as the field and the number of blocks sent for blocks.
C37_ChunkAddress ==
    run.oper = "load" =>
        \A k \in 0..(Len(ChunkWrites) - 1) :
            LET d == ChunkWrites[k + 1].data
            IN /\ d[1] = unitsPerRequest * k
               /\ IF isNtag(run.tagTypeValue)
                  THEN d[2] = UnitsOfChunk(k)
                  ELSE Len(d) = 1 + UnitsOfChunk(k) * blockSize


\* the i-th command of the handler came back with the success status
Succeeded(i) ==
    issued[i].answer.kind = "resolved" /\ issued[i].answer.status = STATUS_SUCCESS

\* a command that writes tag data to the slot
IsDataWrite(e) == IsChunkWrite(e) \/ e.cmd = CMD_EM410X_SET_EMU_ID

\* the tag type was set, with success, before the i-th command
TypeSetBefore(i) ==
    \E j \in 1..(i - 1) : issued[j].cmd = CMD_SET_SLOT_TAG_TYPE /\ Succeeded(j)

\* the order of the commands of a slot load
LoadOrder ==
    \A i \in 1..Len(issued) :
        /\ IsDataWrite(issued[i]) => TypeSetBefore(i)
        /\ issued[i].cmd = CMD_SLOT_DATA_CONFIG_SAVE =>
              /\ run.saveToFlash
              /\ TypeSetBefore(i)
              /\ \A j \in 1..(i - 1) : IsDataWrite(issued[j]) => Succeeded(j)
        /\ i < Len(issued) => Succeeded(i)

\* C38: in slot load the tag type is set before any data is written,
\* SLOT_DATA_CONFIG_SAVE is issued only by loadflash and only after the tag
\* type was set and every data write succeeded, and no command follows a
\* step that failed.
C38_LoadOrder ==
    run.oper = "load" => LoadOrder


\* ---- C39
\* the argument is written as a whole number (no sign, nothing after the
\* digits) and that number is a slot 1..8
IsSlotNumber(arg) ==
    /\ arg # <<>>
    /\ \A i \in 1..Len(arg) : isDigit(arg[i])
    /\ decimal(arg) \in 1..8

\* C39: slot change sends SET_ACTIVE_SLOT only when its argument is a slot
\* number 1..8, with the single payload byte slot - 1; for every other
\* argument (missing, out of range or not a number) the handler ends with an
\* error report and no command was sent.
\* (violated: "x" parses to NaN, passes both comparisons and is sent as slot 1)
C39_SlotRange ==
    run.oper = "change" =>
        /\ \A i \in 1..Len(issued) :
              issued[i].cmd = CMD_SET_ACTIVE_SLOT =>
                  /\ IsSlotNumber(run.arg)
                  /\ issued[i].data = <<decimal(run.arg) - 1>>
        /\ (pc = "done" /\ ~IsSlotNumber(run.arg)) =>
              /\ issued = <<>>
              /\ run.exit \in {"usage", "range", "notconnected"}

====
